---- MODULE Spec2Model ----
(***************************************************************************)
(* Model of the automaker agent core:                                      *)
(*   - AgentService (session registry): sendMessage, stopExecution,       *)
(*     clearSession, the prompt queue and processNextInQueue;              *)
(*   - OpenAIProvider.executeQuery: the streamed tool-call accumulation    *)
(*     and the tool loop.                                                  *)
(* One conversation is modelled; every await of the TypeScript code is a   *)
(* suspension point, i.e. the boundary between two actions.                *)
(***************************************************************************)
EXTENDS Integers, Sequences, FiniteSets, TLC

\* ---------------------------------------------------------------- bounds
MaxSends == 2      \* sendMessage executions (caller sends + queued sends)
MaxImages == 1     \* image paths of one send
MaxDeltas == 1     \* text blocks relayed in one turn
MaxBudget == 2     \* largest maxTurns option of an executeQuery
MaxChunks == 2     \* chunks of one streamed response (SpecQuery)
MaxFrags == 4      \* chunks of one streamed response (SpecAccum)
MaxSlot == 1       \* largest tool-call slot index a backend uses
MaxContent == 3    \* characters of a file's content (SpecEdit)
MaxOld == 2        \* characters of an edit's old text (SpecEdit)
MaxCalls == 2      \* tool calls of one executeToolCalls (SpecTools)
MaxSegs == 2       \* segments of a path given to a tool or to start (SpecBash)
MaxPieces == 2     \* pieces of a model id (SpecRoute)
MaxText == 3       \* characters of an error message (SpecFormat)
MaxRequests == 3   \* backend requests of one query (SpecPost)
MaxEdits == 2       \* entries of an edits array (SpecEdits)
MaxStarts == 2     \* startConversation calls
MaxQueued == 2     \* prompts queued at the start (SpecDrain, SpecOps)
MaxQueueCalls == 3 \* addToQueue, removeFromQueue and clearQueue calls (SpecOps)

\* ------------------------------------------------------------- variables
VARIABLES
    messages,         \* session.messages
    disk,             \* the transcript file written by saveSession
    isRunning,        \* session.isRunning
    abortController,  \* session.abortController: 0 is null, else the id of the controller
    aborted,          \* controllers whose abort() was called
    sessModel,        \* session.model ("" is undefined)
    promptQueue,      \* session.promptQueue
    queueFile,        \* the queue file written by saveQueueState
    files,            \* which of the two files exist: "session", "queue"
    events,           \* what emitAgentEvent has emitted, in order, per channel:
                      \* events[t] for sendMessage execution t, events[0] for the queue
    turns,            \* the sendMessage executions: position and locals
    nextTid,          \* next sendMessage execution id
    nextPid,          \* next queued prompt id
    drainPending,     \* setImmediate callbacks (processNextInQueue) not yet run
    queueOps,         \* addToQueue, removeFromQueue and clearQueue calls awaiting
                      \* saveQueueState, each with the queue it is writing
    \* --- OpenAIProvider.executeQuery, one call
    qpc,              \* position of the generator
    qResult,          \* how the generator ended
    hasApiKey,        \* getApiKey() is non-empty
    maxTurns,         \* options.maxTurns
    allowedTools,     \* options.allowedTools
    iterations,       \* the loop counter
    requests,         \* backend requests opened (createChatCompletionStream calls)
    chunks,           \* the chunks of the current response, in arrival order
    acc,              \* toolCallAccumulators: the entries in insertion order
    assistantText,    \* assistantText of the current iteration
    finishReason,     \* finishReason of the current iteration ("" is null)
    out,              \* the ProviderMessages yielded so far
    activeMessages,   \* the backend-native message history
    \* --- the tool sandbox, one call
    toolPc,           \* position of the call
    toolIn,           \* the input of the call and the environment it reads
    toolOut,          \* what the call returned and what it did
    \* --- the registry entry of the conversation
    loaded,           \* this.sessions.has(sessionId)
    metadata,         \* the metadata file has an entry for sessionId
    workingDirectory, \* session.workingDirectory
    sdkSessionId,     \* session.sdkSessionId, 0 when undefined
    metadataToken,    \* the sdkSessionId of the metadata entry, 0 when undefined
    startResult       \* what the last startConversation call returned

agentVars == <<messages, disk, isRunning, abortController, aborted, sessModel,
               promptQueue, queueFile, files, events, turns, nextTid, nextPid,
               drainPending, queueOps>>

queryVars == <<qpc, qResult, hasApiKey, maxTurns, allowedTools, iterations, requests,
               chunks, acc, assistantText, finishReason, out, activeMessages>>

toolVars == <<toolPc, toolIn, toolOut>>

lifeVars == <<loaded, metadata, workingDirectory, sdkSessionId, metadataToken,
              startResult>>

vars == <<agentVars, queryVars, toolVars, lifeVars>>

Tids == 1..MaxSends
Models == {"", "gpt-x"}   \* "" stands for an omitted model argument

\* ------------------------------------------------- paths and the Path Guard

\* a path: absolute or relative, a sequence of segments
Segments == {"p", "d", "e", ".."}
Path(abs, segs) == [abs |-> abs, segs |-> segs]
NoPath == Path(FALSE, <<>>)   \* the empty string: no path given
Paths == {Path(abs, segs) : abs \in BOOLEAN,
                            segs \in UNION {[1..k -> Segments] : k \in 0..MaxSegs}}

\* lexical resolution of "..": a segment removes the one before it, the root stays
RECURSIVE Normalize(_, _)
Normalize(segs, done) ==
    IF segs = <<>> THEN done
    ELSE IF Head(segs) = ".."
         THEN Normalize(Tail(segs),
                        IF done = <<>> THEN <<>> ELSE SubSeq(done, 1, Len(done) - 1))
         ELSE Normalize(Tail(segs), Append(done, Head(segs)))

\* path.resolve(cwd, inputPath) for an absolute cwd
resolve(cwd, inputPath) == Path(TRUE, Normalize(cwd.segs \o inputPath.segs, <<>>))

\* resolveInputPath: an absolute input is taken as given
resolveInputPath(cwd, inputPath) ==
    IF inputPath.abs THEN inputPath ELSE resolve(cwd, inputPath)

\* the Path Guard: one allowed root and the application data directory
AllowedRoot == <<"p">>
DataDir == <<"d">>
Under(segs, root) == Len(segs) >= Len(root) /\ SubSeq(segs, 1, Len(root)) = root
isPathAllowed(path) ==
    LET n == Normalize(path.segs, <<>>)
    IN path.abs /\ (Under(n, AllowedRoot) \/ Under(n, DataDir))

\* ------------------------------------------------------------ AgentService

NoTurn == [pc |-> "none", via |-> "none", model |-> "", imgs |-> 0, pid |-> 0,
           ctrl |-> 0, saved |-> <<>>, wd |-> NoPath, cwd |-> NoPath, sdk |-> 0,
           asst |-> FALSE, deltas |-> 0, resp |-> <<>>, relayed |-> 0,
           rkind |-> "pending", success |-> FALSE, abrt |-> FALSE, err |-> ""]

Cur == [messages |-> messages, disk |-> disk, isRunning |-> isRunning,
        abortController |-> abortController, aborted |-> aborted,
        sessModel |-> sessModel, promptQueue |-> promptQueue,
        queueFile |-> queueFile, files |-> files, events |-> events, turns |-> turns,
        nextTid |-> nextTid, nextPid |-> nextPid, drainPending |-> drainPending,
        queueOps |-> queueOps]

AssignFields(s) ==
    /\ messages' = s.messages
    /\ disk' = s.disk
    /\ isRunning' = s.isRunning
    /\ abortController' = s.abortController
    /\ aborted' = s.aborted
    /\ sessModel' = s.sessModel
    /\ promptQueue' = s.promptQueue
    /\ queueFile' = s.queueFile
    /\ files' = s.files
    /\ events' = s.events
    /\ turns' = s.turns
    /\ nextTid' = s.nextTid
    /\ nextPid' = s.nextPid
    /\ drainPending' = s.drainPending
    /\ queueOps' = s.queueOps

AssignAgent(s) ==
    /\ AssignFields(s)
    /\ UNCHANGED <<toolVars, lifeVars>>

Assign(s) ==
    /\ AssignAgent(s)
    /\ UNCHANGED queryVars

Event(type, tid, queue, pid) == [type |-> type, tid |-> tid, queue |-> queue, pid |-> pid]

\* emitAgentEvent; the emitted stream is kept as its subsequence per channel
emitAgentEvent(s, e) == [s EXCEPT !.events[e.tid] = Append(@, e)]

Message(tid, kind) ==
    [tid |-> tid, kind |-> kind,
     role |-> IF kind = "user" THEN "user" ELSE "assistant",
     isError |-> (kind = "error"), content |-> <<>>]

\* saveSession: the transcript file receives the list it is called with
saveSession(s, msgs) == [s EXCEPT !.disk = msgs, !.files = @ \cup {"session"}]

\* saveQueueState: the queue file receives the queue it is called with
saveQueueState(s, queue) == [s EXCEPT !.queueFile = queue, !.files = @ \cup {"queue"}]

SetPc(s, t, p) == [s EXCEPT !.turns[t].pc = p]

\* sendMessage, from the push of the user message to the await of saveSession
BeginTurn(s, t) ==
    LET s1 == [s EXCEPT !.messages = Append(@, Message(t, "user")),
                        !.isRunning = TRUE,
                        !.abortController = t]
        s2 == emitAgentEvent(s1, Event("started", t, <<>>, 0))
        s3 == emitAgentEvent(s2, Event("message", t, <<>>, 0))
        s4 == saveSession(s3, s3.messages)
    IN SetPc(s4, t, "preparing")

\* sendMessage after the model update: the image loop or the user message
AfterModel(s, t) ==
    IF s.turns[t].imgs > 0 THEN SetPc(s, t, "reading") ELSE BeginTurn(s, t)

\* mutant: the model is stored before the running flag is checked
SendCallModelFirst(s, t, via, m, k, pid) ==
    LET s0 == [s EXCEPT !.turns[t] = [NoTurn EXCEPT !.via = via, !.imgs = k,
                                                    !.pid = pid],
                        !.sessModel = IF m # "" THEN m ELSE @]
    IN IF s.isRunning
       THEN [s0 EXCEPT !.turns[t].pc = "rejected",
                       !.turns[t].rkind = "throw",
                       !.turns[t].err = "AlreadyRunning"]
       ELSE IF m # ""
            THEN SetPc(s0, t, "updating")
            ELSE AfterModel(s0, t)

\* sendMessage from its call to its first await (or its throw)
SendCall(s, t, via, m, k, pid) ==
    LET s0 == [s EXCEPT !.turns[t] = [NoTurn EXCEPT !.via = via, !.imgs = k,
                                                    !.pid = pid]]
    IN IF s.isRunning
       THEN [s0 EXCEPT !.turns[t].pc = "rejected",
                       !.turns[t].rkind = "throw",
                       !.turns[t].err = "AlreadyRunning"]
       ELSE IF m # ""
            THEN SetPc([s0 EXCEPT !.sessModel = m], t, "updating")
            ELSE AfterModel(s0, t)

\* mutant: the catch block leaves the running flag and the controller as they are
CatchErrorNoReset(s, t) ==
    LET s1 == [s EXCEPT !.messages = Append(@, Message(t, "error"))]
        s2 == saveSession(s1, s1.messages)
    IN SetPc(s2, t, "errSaving")

\* the catch block of sendMessage for a non-abort error, up to the await of saveSession
CatchError(s, t) ==
    LET s1 == [s EXCEPT !.isRunning = FALSE,
                        !.abortController = 0,
                        !.messages = Append(@, Message(t, "error"))]
        s2 == saveSession(s1, s1.messages)
    IN SetPc(s2, t, "errSaving")

\* mutant: an abort is recorded in the history like any other error
CatchAbortAsError(s, t) ==
    [s EXCEPT !.isRunning = FALSE,
              !.abortController = 0,
              !.messages = Append(@, Message(t, "error")),
              !.turns[t].pc = "aborted",
              !.turns[t].rkind = "value",
              !.turns[t].success = FALSE,
              !.turns[t].abrt = TRUE]

\* the catch block of sendMessage for an abort error
CatchAbort(s, t) ==
    [s EXCEPT !.isRunning = FALSE,
              !.abortController = 0,
              !.turns[t].pc = "aborted",
              !.turns[t].rkind = "value",
              !.turns[t].success = FALSE,
              !.turns[t].abrt = TRUE]

\* mutant: the catch emits nothing
QueueCatchSilent(s, t) == s

\* processNextInQueue's catch around the queued sendMessage
QueueCatch(s, t) ==
    IF s.turns[t].via = "queue" /\ s.turns[t].rkind = "throw"
    THEN emitAgentEvent(s, Event("queue_error", 0, <<>>, s.turns[t].pid))
    ELSE s

\* the stream event of a text block: its content is responseText
StreamEvent(t, content) ==
    [type |-> "stream", tid |-> t, queue |-> <<>>, pid |-> 0, content |-> content]

\* mutant: every text block adds a Message of its own
GrowResponsePerDelta(s, t, text) ==
    LET r == s.turns[t].resp \o text
    IN [s EXCEPT !.messages = Append(@, [Message(t, "assistant") EXCEPT !.content = r]),
                 !.turns[t].asst = TRUE,
                 !.turns[t].deltas = @ + 1,
                 !.turns[t].resp = r]

\* the text block of an assistant message in the stream loop, up to the edit-intent
\* test: responseText grows and is the content of the one assistant Message
GrowResponse(s, t, text) ==
    LET r == s.turns[t].resp \o text
        grown == [i \in 1..Len(s.messages) |->
                    IF s.messages[i].tid = t /\ s.messages[i].kind = "assistant"
                    THEN [s.messages[i] EXCEPT !.content = r]
                    ELSE s.messages[i]]
        s1 == IF s.turns[t].asst
              THEN [s EXCEPT !.messages = grown]
              ELSE [s EXCEPT !.messages =
                        Append(@, [Message(t, "assistant") EXCEPT !.content = r]),
                             !.turns[t].asst = TRUE]
    IN [s1 EXCEPT !.turns[t].deltas = @ + 1, !.turns[t].resp = r]

\* the text block of an assistant message in the stream loop
TextBlockOf(s, t, text) ==
    LET g == GrowResponse(s, t, text)
    IN emitAgentEvent(g, StreamEvent(t, g.turns[t].resp))

TextBlock(s, t) == TextBlockOf(s, t, <<"a">>)

\* mutant: the head is read but not removed from the queue
processNextInQueueNoShift(s) ==
    IF Len(s.promptQueue) = 0 \/ s.isRunning
    THEN s
    ELSE LET p == Head(s.promptQueue)
             s1 == [s EXCEPT !.nextTid = @ + 1,
                             !.turns[s.nextTid] =
                                 [NoTurn EXCEPT !.pc = "qsaving", !.via = "queue",
                                                !.model = p.model, !.imgs = p.imgs,
                                                !.pid = p.id,
                                                !.saved = s.promptQueue]]
         IN saveQueueState(s1, s1.promptQueue)

\* processNextInQueue from its call to the await of saveQueueState
processNextInQueue(s) ==
    IF Len(s.promptQueue) = 0 \/ s.isRunning
    THEN s
    ELSE LET p == Head(s.promptQueue)
             s1 == [s EXCEPT !.promptQueue = Tail(@),
                             !.nextTid = @ + 1,
                             !.turns[s.nextTid] =
                                 [NoTurn EXCEPT !.pc = "qsaving", !.via = "queue",
                                                !.model = p.model, !.imgs = p.imgs,
                                                !.pid = p.id,
                                                !.saved = Tail(s.promptQueue)]]
         IN saveQueueState(s1, s1.promptQueue)

\* mutant: the completion schedules no drain
CompleteNoDrain(s, t) ==
    [s EXCEPT !.isRunning = FALSE,
              !.abortController = 0,
              !.turns[t].pc = "returned",
              !.turns[t].rkind = "value",
              !.turns[t].success = TRUE]

\* mutant: the completion runs processNextInQueue inline instead of deferring it
CompleteInline(s, t) ==
    processNextInQueue(CompleteNoDrain(s, t))

\* the end of sendMessage's try block after the last saveSession resolved
Complete(s, t) ==
    [s EXCEPT !.isRunning = FALSE,
              !.abortController = 0,
              !.drainPending = @ + 1,
              !.turns[t].pc = "returned",
              !.turns[t].rkind = "value",
              !.turns[t].success = TRUE]

\* --- actions ---------------------------------------------------------------

Budget == nextTid + Len(promptQueue) <= MaxSends

SendMessage(m, k) ==
    /\ Budget
    /\ Assign(SendCall([Cur EXCEPT !.nextTid = @ + 1], nextTid, "caller", m, k, 0))

UpdateDone(t) ==
    /\ turns[t].pc = "updating"
    /\ Assign(AfterModel(Cur, t))

ImageRead(t) ==
    /\ turns[t].pc = "reading"
    /\ LET s1 == [Cur EXCEPT !.turns[t].imgs = @ - 1]
       IN Assign(IF s1.turns[t].imgs = 0 THEN BeginTurn(s1, t) ELSE s1)

\* after saveSession: settings, context files, provider and options; the provider
\* receives the controller the session holds when the options are built
\* workingDirectory || session.workingDirectory
effectiveWorkDir(given) == IF given # NoPath THEN given ELSE workingDirectory

\* sendMessage from the saveSession of the user message to the provider's stream:
\* the options are built, with the working directory, the session's controller
\* and the session's continuation token
Prepare(t) ==
    /\ turns[t].pc = "preparing"
    /\ Assign([Cur EXCEPT !.turns[t].pc = "streaming",
                          !.turns[t].ctrl = abortController,
                          !.turns[t].cwd = effectiveWorkDir(turns[t].wd),
                          !.turns[t].sdk = sdkSessionId])

PrepareFail(t) ==
    /\ turns[t].pc = "preparing"
    /\ Assign(CatchError(Cur, t))

StreamText(t) ==
    /\ turns[t].pc = "streaming"
    /\ turns[t].deltas < MaxDeltas
    /\ Assign(TextBlock(Cur, t))

\* the result message, the last one of a stream, and the saveSession after the loop
StreamResult(t) ==
    /\ turns[t].pc = "streaming"
    /\ LET s1 == emitAgentEvent(Cur, Event("complete", t, <<>>, 0))
       IN Assign(SetPc(saveSession(s1, s1.messages), t, "finalSaving"))

\* a stream that ends without a result message
StreamEnd(t) ==
    /\ turns[t].pc = "streaming"
    /\ Assign(SetPc(saveSession(Cur, messages), t, "finalSaving"))

StreamFail(t) ==
    /\ turns[t].pc = "streaming"
    /\ Assign(CatchError(Cur, t))

\* the provider throws an abort error: only a provider whose controller was aborted
StreamAbort(t) ==
    /\ turns[t].pc = "streaming"
    /\ turns[t].ctrl # 0
    /\ turns[t].ctrl \in aborted
    /\ Assign(CatchAbort(Cur, t))

FinalSaveDone(t) ==
    /\ turns[t].pc = "finalSaving"
    /\ Assign(Complete(Cur, t))

ErrSaveDone(t) ==
    /\ turns[t].pc = "errSaving"
    /\ LET s1 == emitAgentEvent(Cur, Event("error", t, <<>>, 0))
           s2 == [s1 EXCEPT !.turns[t].pc = "threw",
                            !.turns[t].rkind = "throw",
                            !.turns[t].err = "failure"]
       IN Assign(QueueCatch(s2, t))

\* stopExecution: abort() on the session's controller, if it holds one
StopState ==
    IF abortController # 0
    THEN [Cur EXCEPT !.aborted = @ \cup {abortController},
                     !.isRunning = FALSE,
                     !.abortController = 0]
    ELSE Cur

StopExecution == Assign(StopState)

ClearSession ==
    Assign(saveSession([Cur EXCEPT !.messages = <<>>, !.isRunning = FALSE], <<>>))

\* a queue operation reaches its await of saveQueueState / comes back from it
BeginQueueOp(s, op) ==
    [s EXCEPT !.queueOps = Append(@, [op |-> op, saved |-> s.queueFile])]
EndQueueOp(s, i) ==
    [s EXCEPT !.queueOps = SubSeq(@, 1, i - 1) \o SubSeq(@, i + 1, Len(@))]

\* addToQueue from its call to the await of saveQueueState
AddToQueue(m, k) ==
    /\ Budget
    /\ LET p == [id |-> nextPid, model |-> m, imgs |-> k]
           s1 == [Cur EXCEPT !.promptQueue = Append(@, p), !.nextPid = @ + 1]
       IN Assign(BeginQueueOp(saveQueueState(s1, s1.promptQueue), "add"))

\* addToQueue after saveQueueState: queue_updated with the queue as it is now
AddSaved ==
    \E i \in 1..Len(queueOps) :
        /\ queueOps[i].op = "add"
        /\ Assign(emitAgentEvent(EndQueueOp(Cur, i),
                                 Event("queue_updated", 0, promptQueue, 0)))

\* removeFromQueue from its call to the await of saveQueueState; a prompt id that
\* is not in the queue changes nothing
removeFromQueue(s, promptId) ==
    IF \A i \in 1..Len(s.promptQueue) : s.promptQueue[i].id # promptId
    THEN s
    ELSE LET s1 == [s EXCEPT !.promptQueue = SelectSeq(@, LAMBDA p : p.id # promptId)]
         IN BeginQueueOp(saveQueueState(s1, s1.promptQueue), "remove")

RemoveFromQueue(promptId) ==
    /\ \E i \in 1..Len(promptQueue) : promptQueue[i].id = promptId
    /\ Assign(removeFromQueue(Cur, promptId))

\* removeFromQueue after saveQueueState: queue_updated with the queue as it is now
RemoveSaved ==
    \E i \in 1..Len(queueOps) :
        /\ queueOps[i].op = "remove"
        /\ Assign(emitAgentEvent(EndQueueOp(Cur, i),
                                 Event("queue_updated", 0, promptQueue, 0)))

\* getQueue: the queue, no event
getQueue(s) == s.promptQueue

\* mutant: the queue in memory is left as it is
clearQueueFileOnly(s) == BeginQueueOp(saveQueueState(s, <<>>), "clear")

\* clearQueue from its call to the await of saveQueueState
clearQueue(s) ==
    BeginQueueOp(saveQueueState([s EXCEPT !.promptQueue = <<>>], <<>>), "clear")

ClearQueue == Assign(clearQueue(Cur))

\* clearQueue after saveQueueState: queue_updated with an empty queue
ClearSaved ==
    \E i \in 1..Len(queueOps) :
        /\ queueOps[i].op = "clear"
        /\ Assign(emitAgentEvent(EndQueueOp(Cur, i),
                                 Event("queue_updated", 0, <<>>, 0)))

\* mutant: the drain does not look at the running flag
DrainStartWhileRunning ==
    /\ drainPending > 0
    /\ Assign(processNextInQueue([Cur EXCEPT !.drainPending = @ - 1,
                                             !.isRunning = FALSE]))

\* the setImmediate callback scheduled by sendMessage runs
DrainStart ==
    /\ drainPending > 0
    /\ Assign(processNextInQueue([Cur EXCEPT !.drainPending = @ - 1]))

\* mutant: the drain writes the shorter queue and never invokes send
DrainSendDropped(t) ==
    /\ turns[t].pc = "qsaving"
    /\ Assign(SetPc(emitAgentEvent(Cur, Event("queue_updated", 0, promptQueue, 0)),
                    t, "rejected"))

\* processNextInQueue after saveQueueState: queue_updated, then the queued sendMessage
DrainSend(t) ==
    /\ turns[t].pc = "qsaving"
    /\ LET s1 == emitAgentEvent(Cur, Event("queue_updated", 0, promptQueue, 0))
           s2 == SendCall(s1, t, "queue", turns[t].model, turns[t].imgs, turns[t].pid)
       IN Assign(QueueCatch(s2, t))

\* ------------------------------------------------- OpenAIProvider.executeQuery

Slots == 0..MaxSlot

\* TOOL_DEFINITIONS and DEFAULT_TOOL_NAMES: the names of the catalog
ToolCatalog == {"Read", "Write", "Edit", "Glob", "Grep", "Bash", "WebFetch"}
DefaultToolNames == {"Read", "Write", "Edit", "Glob", "Grep", "Bash", "WebFetch"}

Undefined == [defined |-> FALSE, names |-> {}]
Names(set) == [defined |-> TRUE, names |-> set]

\* mutant: the allowed list is not consulted
getToolDefinitionsAll(allowed) == ToolCatalog

\* getToolDefinitions: the names of the tools of the catalog that are allowed
getToolDefinitions(allowed) ==
    LET names == IF ~allowed.defined THEN DefaultToolNames ELSE allowed.names
    IN {n \in ToolCatalog : n \in names}

\* JSON.parse of an argument string built from the fragments "{" and "}"
ValidJson(args) == args = <<"{", "}">>

\* one tool-call delta of a chunk
TcDelta(index, id, name, arguments) ==
    [index |-> index, id |-> id, name |-> name, arguments |-> arguments]

NoDelta == TcDelta(0, "", "", <<>>)

\* a stream chunk: choices[0].delta (absent or not), its content, its tool_calls
\* (none or one delta), and choices[0].finish_reason
Chunk(hasDelta, content, hasTc, tc, finish) ==
    [hasDelta |-> hasDelta, content |-> content, hasTc |-> hasTc, tc |-> tc,
     finish |-> finish]

TextChunk(text) == Chunk(TRUE, text, FALSE, NoDelta, "")
ToolChunk(d) == Chunk(TRUE, <<>>, TRUE, d, "")
FinishChunk(hasDelta, reason) == Chunk(hasDelta, <<>>, FALSE, NoDelta, reason)

AccIndexOf(a, index) ==
    IF \E i \in 1..Len(a) : a[i].index = index
    THEN CHOOSE i \in 1..Len(a) : a[i].index = index
    ELSE 0

\* mutant: every delta is merged into the entry of the first slot seen
AccumulateFirstSlot(a, d) ==
    LET i == IF Len(a) > 0 THEN 1 ELSE 0
        existing == IF i = 0 THEN TcDelta(d.index, "", "", <<>>) ELSE a[i]
        merged == [existing EXCEPT
                      !.id = IF d.id # "" THEN d.id ELSE @,
                      !.name = IF d.name # "" THEN d.name ELSE @,
                      !.arguments = @ \o d.arguments]
    IN IF i = 0 THEN Append(a, merged) ELSE [a EXCEPT ![i] = merged]

\* the body of the loop over choice.delta.tool_calls: get, merge, set
Accumulate(a, d) ==
    LET i == AccIndexOf(a, d.index)
        existing == IF i = 0 THEN TcDelta(d.index, "", "", <<>>) ELSE a[i]
        merged == [existing EXCEPT
                      !.id = IF d.id # "" THEN d.id ELSE @,
                      !.name = IF d.name # "" THEN d.name ELSE @,
                      !.arguments = @ \o d.arguments]
    IN IF i = 0 THEN Append(a, merged) ELSE [a EXCEPT ![i] = merged]

\* mutant: the entries stay in the order in which their slots were first seen
SortByArrival(a, from) == a

\* Array.from(entries).sort by index
RECURSIVE SortByIndex(_, _)
SortByIndex(a, from) ==
    IF from > MaxSlot THEN <<>>
    ELSE LET i == AccIndexOf(a, from)
         IN (IF i = 0 THEN <<>> ELSE <<a[i]>>) \o SortByIndex(a, from + 1)

\* mutant: a call needs an id only
RECURSIVE FilterHasId(_)
FilterHasId(a) ==
    IF a = <<>> THEN <<>>
    ELSE (IF Head(a).id # "" THEN <<Head(a)>> ELSE <<>>) \o FilterHasId(Tail(a))

\* filter((call) => call.id && call.name)
RECURSIVE FilterComplete(_)
FilterComplete(a) ==
    IF a = <<>> THEN <<>>
    ELSE (IF Head(a).id # "" /\ Head(a).name # "" THEN <<Head(a)>> ELSE <<>>)
         \o FilterComplete(Tail(a))

\* the accumulated tool calls of a response: sorted by slot, id and name known
ToolCallsOf(a) == FilterComplete(SortByIndex(a, 0))

\* a ToolExecutionOutput; ran tells whether the tool's execute was invoked
ToolResult(call, content, isError, ran) ==
    [id |-> call.id, name |-> call.name, content |-> content, isError |-> isError,
     ran |-> ran]

\* the result of a call that reached its tool
Executed(call, outcome) ==
    ToolResult(call, IF outcome = "throw" THEN "toolFailed" ELSE "result",
               outcome # "ok", TRUE)

\* mutant: an unavailable tool ends the loop instead of continuing with the next call
RECURSIVE ToolLoopBreak(_, _, _, _)
ToolLoopBreak(calls, registry, outcomes, results) ==
    IF calls = <<>> THEN results
    ELSE LET call == Head(calls)
         IN IF call.name \notin registry
            THEN Append(results, ToolResult(call, "notAvailable", TRUE, FALSE))
            ELSE IF call.arguments # <<>> /\ ~ValidJson(call.arguments)
                 THEN ToolLoopBreak(Tail(calls), registry, Tail(outcomes),
                                    Append(results,
                                           ToolResult(call, "parseFailed", TRUE, FALSE)))
                 ELSE ToolLoopBreak(Tail(calls), registry, Tail(outcomes),
                                    Append(results, Executed(call, Head(outcomes))))

\* the loop of executeToolCalls over the calls; outcomes[i] is what the tool's
\* execute does when call i reaches it ("ok", "error": an isError result, "throw");
\* ran tells whether execute was invoked
RECURSIVE ToolLoop(_, _, _, _)
ToolLoop(calls, registry, outcomes, results) ==
    IF calls = <<>> THEN results
    ELSE LET call == Head(calls)
         IN IF call.name \notin registry
            THEN ToolLoop(Tail(calls), registry, Tail(outcomes),
                          Append(results, ToolResult(call, "notAvailable", TRUE, FALSE)))
            ELSE IF call.arguments # <<>> /\ ~ValidJson(call.arguments)
                 THEN ToolLoop(Tail(calls), registry, Tail(outcomes),
                               Append(results,
                                           ToolResult(call, "parseFailed", TRUE, FALSE)))
                 ELSE ToolLoop(Tail(calls), registry, Tail(outcomes),
                               Append(results, Executed(call, Head(outcomes))))

\* executeToolCalls: the registry of the allowed tools, then the loop
executeToolCalls(calls, allowed, outcomes) ==
    ToolLoop(calls, getToolDefinitions(allowed), outcomes, <<>>)

ToolMessages(results) ==
    [i \in 1..Len(results) |-> [role |-> "tool", id |-> results[i].id]]

ToolResultEvents(results) ==
    [i \in 1..Len(results) |->
        [type |-> "tool_result", id |-> results[i].id, text |-> <<>>,
         n |-> 1, isError |-> results[i].isError]]

\* the assistant message whose content is the tool_use blocks of the calls
ToolUseEvent(calls) ==
    [type |-> "tool_use", id |-> "", text |-> <<>>, n |-> Len(calls), isError |-> FALSE,
     blocks |-> [i \in 1..Len(calls) |->
                    [tool_use_id |-> calls[i].id, name |-> calls[i].name]]]

QueryDone(result) ==
    /\ qpc' = "done"
    /\ qResult' = result

\* mutant: the loop admits one request more than maxTurns
LoopHeadOffByOne ==
    IF iterations <= maxTurns
    THEN /\ iterations' = iterations + 1
         /\ requests' = requests + 1
         /\ acc' = <<>>
         /\ chunks' = <<>>
         /\ finishReason' = ""
         /\ assistantText' = <<>>
         /\ qpc' = "awaitResponse"
         /\ UNCHANGED qResult
    ELSE /\ QueryDone("maxTurnsExceeded")
         /\ UNCHANGED <<iterations, requests, acc, chunks, finishReason, assistantText>>

\* while (iterations < maxTurns): open the next request, or throw after the loop
LoopHead ==
    IF iterations < maxTurns
    THEN /\ iterations' = iterations + 1
         /\ requests' = requests + 1
         /\ acc' = <<>>
         /\ chunks' = <<>>
         /\ finishReason' = ""
         /\ assistantText' = <<>>
         /\ qpc' = "awaitResponse"
         /\ UNCHANGED qResult
    ELSE /\ QueryDone("maxTurnsExceeded")
         /\ UNCHANGED <<iterations, requests, acc, chunks, finishReason, assistantText>>

\* executeQuery up to the first request: the API key check and the messages
QueryStart ==
    /\ qpc = "init"
    /\ IF ~hasApiKey
       THEN /\ QueryDone("noApiKey")
            /\ UNCHANGED <<iterations, requests, acc, chunks, finishReason,
                           assistantText, activeMessages>>
       ELSE /\ LoopHead
            /\ activeMessages' = <<[role |-> "user", id |-> ""]>>
    /\ UNCHANGED <<hasApiKey, maxTurns, allowedTools, out>>
    /\ UNCHANGED <<agentVars, toolVars, lifeVars>>

\* createChatCompletionStream resolves with a response body
ResponseArrives ==
    /\ qpc = "awaitResponse"
    /\ qpc' = "stream"
    /\ UNCHANGED <<qResult, hasApiKey, maxTurns, allowedTools, iterations, requests,
                   chunks, acc, assistantText, finishReason, out, activeMessages>>
    /\ UNCHANGED <<agentVars, toolVars, lifeVars>>

\* createChatCompletionStream throws: fetch failed, status not ok or empty body
RequestFails ==
    /\ qpc = "awaitResponse"
    /\ QueryDone("requestFailed")
    /\ UNCHANGED <<hasApiKey, maxTurns, allowedTools, iterations, requests,
                   chunks, acc, assistantText, finishReason, out, activeMessages>>
    /\ UNCHANGED <<agentVars, toolVars, lifeVars>>

\* reader.read() rejects while the response body is consumed
ChunkReadFails ==
    /\ qpc = "stream"
    /\ QueryDone("streamFailed")
    /\ UNCHANGED <<hasApiKey, maxTurns, allowedTools, iterations, requests,
                   chunks, acc, assistantText, finishReason, out, activeMessages>>
    /\ UNCHANGED <<agentVars, toolVars, lifeVars>>

\* mutant: each text delta is also reported as a result
ChunkOutResultPerDelta(c) ==
    IF c.hasDelta /\ c.content # <<>>
    THEN <<[type |-> "text", id |-> "", text |-> c.content, n |-> 1, isError |-> FALSE],
           [type |-> "result", id |-> "", text |-> assistantText \o c.content, n |-> 0,
            isError |-> FALSE]>>
    ELSE <<>>

\* what the body of the for-await loop yields for one chunk
ChunkOut(c) ==
    IF c.hasDelta /\ c.content # <<>>
    THEN <<[type |-> "text", id |-> "", text |-> c.content, n |-> 1, isError |-> FALSE]>>
    ELSE <<>>

\* one chunk of the stream: the body of the for-await loop
StreamChunk(c) ==
    /\ qpc = "stream"
    /\ chunks' = Append(chunks, c)
    /\ IF ~c.hasDelta
       THEN UNCHANGED <<assistantText, out, acc, finishReason>>
       ELSE /\ assistantText' = assistantText \o c.content
            /\ out' = out \o ChunkOut(c)
            /\ acc' = IF c.hasTc THEN Accumulate(acc, c.tc) ELSE acc
            /\ finishReason' = IF c.finish # "" THEN c.finish ELSE finishReason
    /\ UNCHANGED <<qpc, qResult, hasApiKey, maxTurns, allowedTools, iterations,
                   requests, activeMessages>>
    /\ UNCHANGED <<agentVars, toolVars, lifeVars>>

\* the stream ends: the result, or the tool_use blocks and the assistant message
StreamDone ==
    /\ qpc = "stream"
    /\ LET toolCalls == ToolCallsOf(acc)
       IN IF Len(toolCalls) = 0
          THEN /\ out' = Append(out, [type |-> "result", id |-> "", text |-> assistantText,
                                      n |-> 0, isError |-> FALSE])
               /\ QueryDone("success")
               /\ UNCHANGED activeMessages
          ELSE /\ out' = Append(out, ToolUseEvent(toolCalls))
               /\ activeMessages' = Append(activeMessages, [role |-> "assistant", id |-> ""])
               /\ qpc' = "tools"
               /\ UNCHANGED qResult
    /\ UNCHANGED <<hasApiKey, maxTurns, allowedTools, iterations, requests, chunks,
                   acc, assistantText, finishReason>>
    /\ UNCHANGED <<agentVars, toolVars, lifeVars>>

\* executeToolCalls resolves: the tool messages, the tool_result events, the loop test
ToolsDone(outcomes) ==
    /\ qpc = "tools"
    /\ LET results == executeToolCalls(ToolCallsOf(acc), allowedTools, outcomes)
       IN /\ activeMessages' = activeMessages \o ToolMessages(results)
          /\ out' = out \o ToolResultEvents(results)
    /\ LoopHead
    /\ UNCHANGED <<hasApiKey, maxTurns, allowedTools>>
    /\ UNCHANGED <<agentVars, toolVars, lifeVars>>

Outcomes == {"ok", "error", "throw"}

\* the chunks a backend sends in the tool-loop runs
QueryChunks ==
    {TextChunk(<<"a">>), TextChunk(<<>>), FinishChunk(TRUE, "stop"),
     FinishChunk(FALSE, "length")}
    \cup {ToolChunk(TcDelta(i, "call", "Glob", <<>>)) : i \in Slots}
    \cup {ToolChunk(TcDelta(0, "call", "", <<"{">>))}

\* the tool-call deltas a backend sends in the accumulation runs
AccumDeltas ==
    {TcDelta(i, "call_a", "Glob", <<>>) : i \in Slots}
    \cup {TcDelta(i, "call_b", "Read", <<>>) : i \in Slots}
    \cup {TcDelta(i, "", "", <<f>>) : i \in Slots, f \in {"{", "}"}}
    \cup {TcDelta(i, "call_c", "", <<>>) : i \in Slots}
    \cup {TcDelta(i, "", "Grep", <<>>) : i \in Slots}

QueryInitCommon ==
    /\ qpc = "init"
    /\ qResult = "none"
    /\ iterations = 0
    /\ requests = 0
    /\ chunks = <<>>
    /\ acc = <<>>
    /\ assistantText = <<>>
    /\ finishReason = ""
    /\ out = <<>>
    /\ activeMessages = <<>>

QueryIdle ==
    /\ QueryInitCommon
    /\ hasApiKey = TRUE
    /\ maxTurns = 0
    /\ allowedTools = Undefined

AgentFresh ==
    /\ messages = <<>>
    /\ disk = <<>>
    /\ isRunning = FALSE
    /\ abortController = 0
    /\ aborted = {}
    /\ sessModel = ""
    /\ promptQueue = <<>>
    /\ queueFile = <<>>
    /\ files = {}
    /\ events = [c \in 0..MaxSends |-> <<>>]
    /\ turns = [t \in Tids |-> NoTurn]
    /\ nextTid = 1
    /\ nextPid = 1
    /\ drainPending = 0
    /\ queueOps = <<>>

\* no startConversation call yet
NoStart == [calls |-> 0, given |-> NoPath, kind |-> "none", messages |-> <<>>]

\* a new conversation after startConversation
AgentInit ==
    /\ AgentFresh
    /\ loaded = TRUE
    /\ metadata = TRUE
    /\ workingDirectory = Path(TRUE, AllowedRoot)
    /\ sdkSessionId = 0
    /\ metadataToken = 0
    /\ startResult = NoStart

ToolIdle ==
    /\ toolPc = "idle"
    /\ toolIn = <<>>
    /\ toolOut = <<>>

Init ==
    /\ AgentInit
    /\ QueryIdle
    /\ ToolIdle

TurnStep(t) ==
    \/ UpdateDone(t)
    \/ ImageRead(t)
    \/ Prepare(t)
    \/ PrepareFail(t)
    \/ StreamText(t)
    \/ StreamResult(t)
    \/ StreamEnd(t)
    \/ StreamFail(t)
    \/ StreamAbort(t)
    \/ FinalSaveDone(t)
    \/ ErrSaveDone(t)
    \/ DrainSend(t)

Next ==
    \/ \E m \in Models, k \in 0..MaxImages : SendMessage(m, k)
    \/ \E t \in Tids : TurnStep(t)
    \/ StopExecution
    \/ ClearSession
    \/ \E m \in Models, k \in 0..MaxImages : AddToQueue(m, k)
    \/ AddSaved
    \/ DrainStart

Spec == Init /\ [][Next]_vars

\* A conversation driven by one caller send, with prompts enqueued only while a
\* turn is Active and no stop or clear: the follow-up queue on its own.
NextQueue ==
    \/ \E m \in Models, k \in 0..MaxImages : nextTid = 1 /\ SendMessage(m, k)
    \/ \E t \in Tids :
          \/ UpdateDone(t)
          \/ ImageRead(t)
          \/ Prepare(t)
          \/ PrepareFail(t)
          \/ StreamText(t)
          \/ StreamResult(t)
          \/ StreamEnd(t)
          \/ StreamFail(t)
          \/ FinalSaveDone(t)
          \/ ErrSaveDone(t)
          \/ DrainSend(t)
    \/ \E m \in Models, k \in 0..MaxImages : isRunning /\ AddToQueue(m, k)
    \/ AddSaved
    \/ DrainStart

SpecQueue == Init /\ [][NextQueue]_vars

\* A conversation in which a turn has just completed while prompts were queued:
\* Idle, the drain scheduled by the completion not yet run.  The caller may send
\* once, at any moment.
QueuedPrompts(n) ==
    {q \in [1..n -> [id : 1..n, model : Models, imgs : 0..MaxImages]] :
        \A i \in 1..n : q[i].id = i}

InitDrain ==
    /\ QueryIdle
    /\ ToolIdle
    /\ messages = <<>>
    /\ disk = <<>>
    /\ isRunning = FALSE
    /\ abortController = 0
    /\ aborted = {}
    /\ sessModel = ""
    /\ \E n \in 1..MaxQueued : promptQueue \in QueuedPrompts(n)
    /\ queueFile = promptQueue
    /\ files = {"session", "queue"}
    /\ events = [c \in 0..MaxSends |-> <<>>]
    /\ turns = [t \in Tids |-> NoTurn]
    /\ nextTid = 1
    /\ nextPid = Len(promptQueue) + 1
    /\ drainPending = 1
    /\ queueOps = <<>>
    /\ loaded = TRUE
    /\ metadata = TRUE
    /\ workingDirectory = Path(TRUE, AllowedRoot)
    /\ sdkSessionId = 0
    /\ metadataToken = 0
    /\ startResult = NoStart

NextDrain ==
    \/ \E m \in Models, k \in 0..MaxImages :
          /\ nextTid <= MaxSends
          /\ \A t \in Tids : turns[t].via # "caller"
          /\ SendMessage(m, k)
    \/ \E t \in Tids :
          \/ UpdateDone(t)
          \/ ImageRead(t)
          \/ Prepare(t)
          \/ PrepareFail(t)
          \/ StreamText(t)
          \/ StreamResult(t)
          \/ StreamEnd(t)
          \/ StreamFail(t)
          \/ FinalSaveDone(t)
          \/ ErrSaveDone(t)
          \/ DrainSend(t)
    \/ nextTid <= MaxSends /\ DrainStart

SpecDrain == InitDrain /\ [][NextDrain]_vars

\* The queue operations of one conversation, called at any moment, next to the
\* drain of the queued prompts; no caller send, no failing turn, prompts without
\* model and images.
InitOps ==
    /\ InitDrain
    /\ \A i \in 1..Len(promptQueue) : promptQueue[i].model = "" /\ promptQueue[i].imgs = 0

CallBudget == Len(events[0]) + Len(queueOps) < MaxQueueCalls

NextOps ==
    \/ CallBudget /\ AddToQueue("", 0)
    \/ AddSaved
    \/ \E promptId \in 1..(MaxQueued + MaxQueueCalls) :
          CallBudget /\ RemoveFromQueue(promptId)
    \/ RemoveSaved
    \/ CallBudget /\ ClearQueue
    \/ ClearSaved
    \/ nextTid <= MaxSends /\ DrainStart
    \/ \E t \in Tids :
          \/ DrainSend(t)
          \/ Prepare(t)
          \/ StreamResult(t)
          \/ FinalSaveDone(t)

SpecOps == InitOps /\ [][NextOps]_vars

\* one executeQuery call against an arbitrary backend
InitQuery ==
    /\ AgentInit
    /\ ToolIdle
    /\ QueryInitCommon
    /\ hasApiKey \in BOOLEAN
    /\ maxTurns \in 0..MaxBudget
    /\ allowedTools \in {Undefined, Names({})}

NextQuery ==
    \/ QueryStart
    \/ ResponseArrives
    \/ RequestFails
    \/ \E c \in QueryChunks : Len(chunks) < MaxChunks /\ StreamChunk(c)
    \/ ChunkReadFails
    \/ StreamDone
    \/ \E o \in [1..Len(ToolCallsOf(acc)) -> Outcomes] : ToolsDone(o)

SpecQuery == InitQuery /\ [][NextQuery]_vars

\* the chunks a backend sends in the termination runs: text, a complete tool call
\* in one chunk, the finish reason
LoopChunks ==
    {TextChunk(<<"a">>), ToolChunk(TcDelta(0, "call", "Glob", <<>>)),
     FinishChunk(TRUE, "stop")}

NextLoop ==
    \/ QueryStart
    \/ ResponseArrives
    \/ RequestFails
    \/ \E c \in LoopChunks : Len(chunks) < MaxChunks /\ StreamChunk(c)
    \/ ChunkReadFails
    \/ StreamDone
    \/ \E o \in [1..Len(ToolCallsOf(acc)) -> Outcomes] : ToolsDone(o)

\* every backend stream and every tool execution finishes
FairSpecLoop == InitQuery /\ [][NextLoop]_vars /\ WF_vars(NextLoop)

\* one executeQuery call whose responses stream tool-call fragments
InitAccum ==
    /\ AgentInit
    /\ ToolIdle
    /\ QueryInitCommon
    /\ hasApiKey = TRUE
    /\ maxTurns = 1
    /\ allowedTools = Undefined

NextAccum ==
    \/ QueryStart
    \/ ResponseArrives
    \/ \E d \in AccumDeltas : Len(chunks) < MaxFrags /\ StreamChunk(ToolChunk(d))
    \/ StreamDone
    \/ \E o \in [1..Len(ToolCallsOf(acc)) -> {"ok"}] : ToolsDone(o)

SpecAccum == InitAccum /\ [][NextAccum]_vars

\* ---- the lifetime of the conversation: startConversation, deleteSession

\* loadSession: the transcript file, [] when it cannot be read
loadSession == IF "session" \in files THEN disk ELSE <<>>

\* loadQueueState: the queue file, [] when it cannot be read
loadQueueState == IF "queue" \in files THEN queueFile ELSE <<>>

\* process.cwd(), the working directory of a start that names none
ProcessCwd == Path(TRUE, DataDir)

\* path.resolve(workingDirectory || process.cwd())
resolveWorkingDirectory(given) ==
    LET effective == IF given # NoPath THEN given ELSE ProcessCwd
    IN Path(TRUE, Normalize((IF effective.abs THEN <<>> ELSE ProcessCwd.segs)
                            \o effective.segs, <<>>))

StartOutcome(s, has, wd, sdk, kind, msgs) ==
    [agent |-> s, loaded |-> has, workingDirectory |-> wd, sdkSessionId |-> sdk,
     kind |-> kind, messages |-> msgs]

\* the session object built from the transcript and the queue file
Hydrated == [Cur EXCEPT !.messages = loadSession,
                        !.isRunning = FALSE,
                        !.abortController = 0,
                        !.sessModel = "",
                        !.promptQueue = loadQueueState]

\* mutant: the session object is rebuilt although the conversation is in memory
startConversationAnew(given) ==
    IF ~isPathAllowed(resolveWorkingDirectory(given))
    THEN StartOutcome(Cur, loaded, workingDirectory, sdkSessionId, "throw", <<>>)
    ELSE StartOutcome(Hydrated, TRUE, resolveWorkingDirectory(given),
                      IF metadata THEN metadataToken ELSE 0, "value", loadSession)

\* startConversation: a conversation in memory is returned as it is; otherwise
\* the working directory is validated and the session object is built from the
\* two files
startConversation(given) ==
    IF loaded
    THEN StartOutcome(Cur, TRUE, workingDirectory, sdkSessionId, "value", messages)
    ELSE IF ~isPathAllowed(resolveWorkingDirectory(given))
    THEN StartOutcome(Cur, FALSE, workingDirectory, sdkSessionId, "throw", <<>>)
    ELSE StartOutcome(Hydrated, TRUE, resolveWorkingDirectory(given),
                      IF metadata THEN metadataToken ELSE 0, "value", loadSession)

\* a startConversation call; calls on a conversation that is not in memory are
\* awaited one at a time
StartConversation(given) ==
    LET o == startConversation(given)
    IN /\ startResult.calls < MaxStarts
       /\ AssignFields(o.agent)
       /\ loaded' = o.loaded
       /\ workingDirectory' = o.workingDirectory
       /\ sdkSessionId' = o.sdkSessionId
       /\ startResult' = [calls |-> startResult.calls + 1, given |-> given,
                          kind |-> o.kind, messages |-> o.messages]
       /\ UNCHANGED <<metadata, metadataToken, queryVars, toolVars>>

\* deleteSession of a conversation that has a metadata entry: the entry is
\* removed, the transcript file is unlinked, the session object is dropped
DeleteSession ==
    /\ metadata
    /\ queueOps = <<>>
    /\ AssignFields([Cur EXCEPT !.files = @ \ {"session"},
                                !.disk = <<>>,
                                !.messages = <<>>,
                                !.promptQueue = <<>>])
    /\ metadata' = FALSE
    /\ loaded' = FALSE
    /\ workingDirectory' = NoPath
    /\ sdkSessionId' = 0
    /\ metadataToken' = 0
    /\ UNCHANGED <<startResult, queryVars, toolVars>>

\* the working directories a caller names
WorkDirs == {NoPath, Path(TRUE, <<"p">>), Path(FALSE, <<"..", "e">>)}

\* A conversation that is not in memory: with or without a metadata entry, with
\* or without a transcript left by an earlier process.  One caller, which awaits
\* each call before the next, and no turn.
InitDelete ==
    /\ QueryIdle
    /\ ToolIdle
    /\ \E old \in {<<>>, <<Message(1, "user")>>} :
          /\ messages = <<>>
          /\ disk = old
          /\ files = IF old = <<>> THEN {} ELSE {"session"}
    /\ isRunning = FALSE
    /\ abortController = 0
    /\ aborted = {}
    /\ sessModel = ""
    /\ promptQueue = <<>>
    /\ queueFile = <<>>
    /\ events = [c \in 0..MaxSends |-> <<>>]
    /\ turns = [t \in Tids |-> NoTurn]
    /\ nextTid = 1
    /\ nextPid = 1
    /\ drainPending = 0
    /\ queueOps = <<>>
    /\ loaded = FALSE
    /\ metadata \in BOOLEAN
    /\ workingDirectory = NoPath
    /\ sdkSessionId = 0
    /\ metadataToken = 0
    /\ startResult = NoStart

NextDelete ==
    \/ \E w \in WorkDirs : queueOps = <<>> /\ StartConversation(w)
    \/ DeleteSession
    \/ \E m \in Models, k \in 0..MaxImages :
          loaded /\ queueOps = <<>> /\ AddToQueue(m, k)
    \/ AddSaved

SpecDelete == InitDelete /\ [][NextDelete]_vars

\* sendMessage with a workingDirectory argument, on a conversation in memory
SendMessageIn(m, k, given) ==
    /\ Budget
    /\ loaded
    /\ Assign([SendCall([Cur EXCEPT !.nextTid = @ + 1], nextTid, "caller", m, k, 0)
                   EXCEPT !.turns[nextTid].wd = given])

\* the first stream message that carries a session_id while the session has no
\* continuation token
\* continuation token: the session takes it and the loop awaits updateSession
SessionIdSeen(t) ==
    /\ turns[t].pc = "streaming"
    /\ sdkSessionId = 0
    /\ sdkSessionId' = t
    /\ AssignFields(SetPc(Cur, t, "persisting"))
    /\ UNCHANGED <<queryVars, toolVars, loaded, metadata, metadataToken,
                   workingDirectory, startResult>>

\* updateSession(sessionId, {sdkSessionId}): the metadata entry, if there is
\* one, receives the token of the message; without an entry nothing is written
TokenSaved(t) ==
    /\ turns[t].pc = "persisting"
    /\ metadataToken' = IF metadata THEN t ELSE metadataToken
    /\ AssignFields(SetPc(Cur, t, "streaming"))
    /\ UNCHANGED <<queryVars, toolVars, loaded, metadata, sdkSessionId,
                   workingDirectory, startResult>>

\* A conversation from before its first start: starts and sends with any
\* working directory argument, and turns that end without error.
NextStart ==
    \/ \E w \in WorkDirs : StartConversation(w)
    \/ \E w \in WorkDirs : SendMessageIn("", 0, w)
    \/ \E t \in Tids :
          \/ Prepare(t)
          \/ SessionIdSeen(t)
          \/ TokenSaved(t)
          \/ StreamText(t)
          \/ StreamResult(t)
          \/ FinalSaveDone(t)

SpecStart == InitDelete /\ [][NextStart]_vars

\* ------------------------------------------------------------- the tool sandbox

\* strings are sequences of characters; " " is the whitespace character
Chars == {"a", "b", " "}

Texts(n) == UNION {[1..k -> Chars] : k \in 0..n}

\* value.trim() is not empty
HasNonSpace(text) == \E i \in 1..Len(text) : text[i] # " "

\* getString: the value itself when it is a string with a non-blank character
getString(value) == IF HasNonSpace(value) THEN value ELSE <<>>

\* String.prototype.indexOf, 1-based; 0 stands for -1
IndexOf(text, old) ==
    LET at == {i \in 1..(Len(text) - Len(old) + 1) : SubSeq(text, i, i + Len(old) - 1) = old}
    IN IF at = {} THEN 0 ELSE CHOOSE i \in at : \A j \in at : i <= j

\* String.prototype.split with a non-empty separator
RECURSIVE Split(_, _)
Split(text, old) ==
    LET i == IndexOf(text, old)
    IN IF i = 0 THEN <<text>>
       ELSE <<SubSeq(text, 1, i - 1)>> \o Split(SubSeq(text, i + Len(old), Len(text)), old)

\* Array.prototype.join
RECURSIVE Join(_, _)
Join(parts, new) ==
    IF Len(parts) = 1 THEN parts[1]
    ELSE parts[1] \o new \o Join(Tail(parts), new)

\* an entry of the edits list; object tells whether asObject accepts it
Edit(old, new, replaceAll) ==
    [old |-> old, new |-> new, replaceAll |-> replaceAll, object |-> TRUE]

\* an entry that is not an object: a string, a number, null, an array
NotAnObject == [old |-> <<>>, new |-> <<>>, replaceAll |-> FALSE, object |-> FALSE]

\* mutant: an old text that is not found is passed over
ApplyEditSkipMissing(updated, e) ==
    LET oldString == getString(e.old)
        parts == Split(updated, oldString)
    IN IF ~e.object THEN [kind |-> "notobject", text |-> updated, count |-> 0]
       ELSE IF oldString = <<>> THEN [kind |-> "noold", text |-> updated, count |-> 0]
       ELSE IF e.replaceAll
            THEN [kind |-> "ok", text |-> Join(parts, e.new), count |-> Len(parts) - 1]
            ELSE IF Len(parts) = 1
                 THEN [kind |-> "ok", text |-> updated, count |-> 0]
                 ELSE [kind |-> "ok",
                       text |-> parts[1] \o e.new \o Join(Tail(parts), oldString),
                       count |-> 1]

\* mutant: replace_all is ignored, only the first occurrence is replaced
ApplyEditFirstOnly(updated, e) ==
    LET oldString == getString(e.old)
        index == IndexOf(updated, oldString)
    IN IF ~e.object THEN [kind |-> "notobject", text |-> updated, count |-> 0]
       ELSE IF oldString = <<>> THEN [kind |-> "noold", text |-> updated, count |-> 0]
       ELSE IF index = 0 THEN [kind |-> "notfound", text |-> updated, count |-> 0]
       ELSE [kind |-> "ok",
             text |-> SubSeq(updated, 1, index - 1) \o e.new
                      \o SubSeq(updated, index + Len(oldString), Len(updated)),
             count |-> 1]

\* the body of editTool's loop over the edits
ApplyEdit(updated, e) ==
    LET oldString == getString(e.old)
        parts == Split(updated, oldString)
        index == IndexOf(updated, oldString)
    IN IF ~e.object THEN [kind |-> "notobject", text |-> updated, count |-> 0]
       ELSE IF oldString = <<>> THEN [kind |-> "noold", text |-> updated, count |-> 0]
       ELSE IF e.replaceAll
            THEN IF Len(parts) = 1
                 THEN [kind |-> "notfound", text |-> updated, count |-> 0]
                 ELSE [kind |-> "ok", text |-> Join(parts, e.new), count |-> Len(parts) - 1]
            ELSE IF index = 0
                 THEN [kind |-> "notfound", text |-> updated, count |-> 0]
                 ELSE [kind |-> "ok",
                       text |-> SubSeq(updated, 1, index - 1) \o e.new
                                \o SubSeq(updated, index + Len(oldString), Len(updated)),
                       count |-> 1]

\* mutant: each replacement is written to the file as soon as it is made
RECURSIVE EditLoopWriteThrough(_, _, _, _)
EditLoopWriteThrough(original, updated, total, edits) ==
    IF edits = <<>>
    THEN IF updated = original
         THEN [isError |-> FALSE, kind |-> "nochange", count |-> 0, file |-> updated,
               wrote |-> total > 0]
         ELSE [isError |-> FALSE, kind |-> "updated", count |-> total, file |-> updated,
               wrote |-> TRUE]
    ELSE LET r == ApplyEdit(updated, Head(edits))
         IN IF r.kind # "ok"
            THEN [isError |-> TRUE, kind |-> r.kind, count |-> 0, file |-> updated,
                  wrote |-> total > 0]
            ELSE EditLoopWriteThrough(original, r.text, total + r.count, Tail(edits))

\* editTool after readFile: the loop, the no-change test, writeFile and the report;
\* file is the content of the file when the tool returns, wrote tells whether
\* writeFile was called
RECURSIVE EditLoop(_, _, _, _)
EditLoop(original, updated, total, edits) ==
    IF edits = <<>>
    THEN IF updated = original
         THEN [isError |-> FALSE, kind |-> "nochange", count |-> 0, file |-> original,
               wrote |-> FALSE]
         ELSE [isError |-> FALSE, kind |-> "updated", count |-> total, file |-> updated,
               wrote |-> TRUE]
    ELSE LET r == ApplyEdit(updated, Head(edits))
         IN IF r.kind # "ok"
            THEN [isError |-> TRUE, kind |-> r.kind, count |-> 0, file |-> original,
                  wrote |-> FALSE]
            ELSE EditLoop(original, r.text, total + r.count, Tail(edits))

\* editTool for a resolved path: readFile throws when the file does not exist
editTool(in) ==
    IF ~in.exists
    THEN [isError |-> TRUE, kind |-> "failed", count |-> 0, file |-> <<>>,
          wrote |-> FALSE]
    ELSE EditLoop(in.content, in.content, 0, in.edits)

\* the new texts of the edits tried
NewTexts == {<<>>, <<"a">>, <<"b">>}

EditInputs ==
    {Edit(old, new, all) : old \in Texts(MaxOld), new \in NewTexts, all \in BOOLEAN}

InitEdit ==
    /\ AgentInit
    /\ QueryIdle
    /\ toolPc = "called"
    /\ toolOut = <<>>
    /\ \E content \in Texts(MaxContent), e \in EditInputs, twice, exists \in BOOLEAN :
          toolIn = [content |-> content, exists |-> exists,
                    edits |-> IF twice THEN <<e, e>> ELSE <<e>>]

EditCall ==
    /\ toolPc = "called"
    /\ toolPc' = "done"
    /\ toolOut' = editTool(toolIn)
    /\ UNCHANGED <<toolIn, agentVars, queryVars, lifeVars>>

NextEdit == EditCall

SpecEdit == InitEdit /\ [][NextEdit]_vars

\* the entries of an edits array: edits whose old text is over the characters a
\* and b and whose new text is empty or a, and an entry that is not an object
EditEntries ==
    {Edit(old, new, all) : old \in UNION {[1..k -> {"a", "b"}] : k \in 0..MaxOld},
                           new \in {<<>>, <<"a">>}, all \in BOOLEAN}
    \cup {NotAnObject}

\* an existing file and an edits array of one to MaxEdits entries (an empty
\* array makes editTool take the single edit of its other parameters)
InitEdits ==
    /\ AgentInit
    /\ QueryIdle
    /\ toolPc = "called"
    /\ toolOut = <<>>
    /\ \E content \in UNION {[1..k -> {"a", "b"}] : k \in 0..MaxContent},
          n \in 1..MaxEdits :
          \E edits \in [1..n -> EditEntries] :
             toolIn = [content |-> content, exists |-> TRUE, edits |-> edits]

SpecEdits == InitEdits /\ [][NextEdit]_vars

\* --- executeToolCalls on its own

ToolCall(id, name, arguments) == [id |-> id, name |-> name, arguments |-> arguments]

\* the calls a backend may ask for: a tool of the catalog, another one, an unknown
\* name; no argument string, a valid one, an invalid one
CallInputs ==
    {ToolCall("", name, args) : name \in {"Read", "Bash", "Nope"},
                                args \in {<<>>, <<"{", "}">>, <<"{">>}}

\* the ids a backend gives to the calls of one response, by position
CallIds == <<"c1", "c2", "c3", "c4">>

AllowedInputs == {Undefined, Names({}), Names({"Read"}), Names({"Read", "Nope"})}

InitTools ==
    /\ AgentInit
    /\ QueryIdle
    /\ toolPc = "called"
    /\ toolOut = <<>>
    /\ \E n \in 0..MaxCalls :
          \E calls \in [1..n -> CallInputs], outcomes \in [1..n -> Outcomes],
             allowed \in AllowedInputs :
                toolIn = [calls |-> [i \in 1..n |-> [calls[i] EXCEPT !.id = CallIds[i]]],
                          outcomes |-> outcomes, allowed |-> allowed]

\* the tools executeQuery puts in its requests
AdvertisedTools(allowed) == getToolDefinitions(allowed)

\* one tool round of executeQuery: the tools advertised, then executeToolCalls
ToolsCall ==
    /\ toolPc = "called"
    /\ toolPc' = "done"
    /\ toolOut' = [advertised |-> AdvertisedTools(toolIn.allowed),
                   results |-> executeToolCalls(toolIn.calls, toolIn.allowed,
                                                toolIn.outcomes)]
    /\ UNCHANGED <<toolIn, agentVars, queryVars, lifeVars>>

NextTools == ToolsCall

SpecTools == InitTools /\ [][NextTools]_vars

\* ---- the Bash tool on its own

DEFAULT_BASH_TIMEOUT_MS == 120000

\* a value of the timeout_ms / timeoutMs input fields
NoValue == [kind |-> "undefined", n |-> 0]
Num(n) == [kind |-> "number", n |-> n]
NotANumber == [kind |-> "nan", n |-> 0]
\* a ?? b
Coalesce(a, b) == IF a.kind = "undefined" THEN b ELSE a
\* Number(v) || DEFAULT_BASH_TIMEOUT_MS
NumberOr(v, default) == IF v.kind = "number" /\ v.n # 0 THEN v.n ELSE default

timeoutOf(params) ==
    NumberOr(Coalesce(params.timeout_ms,
                      Coalesce(params.timeoutMs, Num(DEFAULT_BASH_TIMEOUT_MS))),
             DEFAULT_BASH_TIMEOUT_MS)

\* coerceCommand: the first of command, cmd that is a non-blank string; <<>> for none
coerceCommand(params) ==
    IF getString(params.command) # <<>> THEN getString(params.command)
    ELSE getString(params.cmd)

\* the cwd field: a string; the empty relative path is the empty string, which
\* getString turns into null
requestedCwd(params) == params.hasCwd /\ (params.cwd.abs \/ params.cwd.segs # <<>>)

BashResult(content, isError, started, cwd, timeout) ==
    [content |-> content, isError |-> isError, started |-> started,
     cwd |-> cwd, timeout |-> timeout]

\* mutant: the guard looks at the context's cwd, not at the resolved one
bashToolGuardsContext(in) ==
    LET resolvedCwd == IF requestedCwd(in) THEN resolveInputPath(in.contextCwd, in.cwd)
                       ELSE in.contextCwd
    IN IF coerceCommand(in) = <<>>
       THEN BashResult("requiresCommand", TRUE, FALSE, NoPath, 0)
       ELSE IF ~isPathAllowed(in.contextCwd)
       THEN BashResult("cwdNotAllowed", TRUE, FALSE, NoPath, 0)
       ELSE IF in.exec = "ok"
       THEN BashResult("output", FALSE, TRUE, resolvedCwd, timeoutOf(in))
       ELSE BashResult("bashFailed", TRUE, TRUE, resolvedCwd, timeoutOf(in))

\* bashTool: the result, and whether, where and with which timeout exec was called
bashTool(in) ==
    LET resolvedCwd == IF requestedCwd(in) THEN resolveInputPath(in.contextCwd, in.cwd)
                       ELSE in.contextCwd
    IN IF coerceCommand(in) = <<>>
       THEN BashResult("requiresCommand", TRUE, FALSE, NoPath, 0)
       ELSE IF ~isPathAllowed(resolvedCwd)
       THEN BashResult("cwdNotAllowed", TRUE, FALSE, NoPath, 0)
       ELSE IF in.exec = "ok"
       THEN BashResult("output", FALSE, TRUE, resolvedCwd, timeoutOf(in))
       ELSE BashResult("bashFailed", TRUE, TRUE, resolvedCwd, timeoutOf(in))

BashInputs ==
    [command : {<<>>, <<"a">>, <<" ">>},
     cmd : {<<>>, <<"b">>},
     hasCwd : BOOLEAN,
     cwd : Paths,
     contextCwd : {Path(TRUE, <<"p">>), Path(TRUE, <<"e">>)},
     timeout_ms : {NoValue, Num(0), Num(60000), Num(300000), NotANumber},
     timeoutMs : {NoValue, Num(120000), Num(300001)},
     exec : {"ok", "fails"}]

InitBash ==
    /\ AgentInit
    /\ QueryIdle
    /\ toolPc = "ready"
    /\ toolIn \in {in \in BashInputs : in.hasCwd \/ in.cwd = NoPath}
    /\ toolOut = <<>>

BashCall ==
    /\ toolPc = "ready"
    /\ toolPc' = "done"
    /\ toolOut' = bashTool(toolIn)
    /\ UNCHANGED <<agentVars, queryVars, toolIn, lifeVars>>

NextBash == BashCall

SpecBash == InitBash /\ [][NextBash]_vars

\* ---- two drains of one queue

\* the variables of the agent hold the state s
Holds(s) ==
    /\ messages = s.messages
    /\ disk = s.disk
    /\ isRunning = s.isRunning
    /\ abortController = s.abortController
    /\ aborted = s.aborted
    /\ sessModel = s.sessModel
    /\ promptQueue = s.promptQueue
    /\ queueFile = s.queueFile
    /\ files = s.files
    /\ events = s.events
    /\ turns = s.turns
    /\ nextTid = s.nextTid
    /\ nextPid = s.nextPid
    /\ drainPending = s.drainPending
    /\ queueOps = s.queueOps

\* an idle conversation with the queue q, after a turn has completed
IdleWithQueue(q) ==
    [messages |-> <<>>, disk |-> <<>>, isRunning |-> FALSE, abortController |-> 0,
     aborted |-> {}, sessModel |-> "", promptQueue |-> q, queueFile |-> q,
     files |-> {"session", "queue"}, events |-> [c \in 0..MaxSends |-> <<>>],
     turns |-> [t \in Tids |-> NoTurn], nextTid |-> 1, nextPid |-> Len(q) + 1,
     drainPending |-> 1, queueOps |-> <<>>]

\* A drain has taken the head of a queue of two or more prompts and awaits
\* saveQueueState; a turn sent in the meantime has completed and has scheduled
\* the next drain.
InitOrder ==
    /\ QueryIdle
    /\ ToolIdle
    /\ loaded = TRUE
    /\ metadata = TRUE
    /\ workingDirectory = Path(TRUE, AllowedRoot)
    /\ sdkSessionId = 0
    /\ metadataToken = 0
    /\ startResult = NoStart
    /\ \E n \in 2..MaxQueued : \E q \in QueuedPrompts(n) :
          Holds(processNextInQueue(IdleWithQueue(q)))

NextOrder ==
    \/ (nextTid <= MaxSends \/ isRunning \/ promptQueue = <<>>) /\ DrainStart
    \/ \E t \in Tids :
          \/ DrainSend(t)
          \/ UpdateDone(t)
          \/ ImageRead(t)
          \/ Prepare(t)
          \/ StreamText(t)
          \/ StreamResult(t)
          \/ FinalSaveDone(t)

SpecOrder == InitOrder /\ [][NextOrder]_vars

\* ---- ProviderFactory.getProviderForModel on its own

Upper == <<"A", "B", "C", "D", "E", "F", "G", "H", "I", "J", "K", "L", "M", "N", "O", "P", "Q", "R", "S", "T", "U", "V", "W", "X", "Y", "Z">>
Lower == <<"a", "b", "c", "d", "e", "f", "g", "h", "i", "j", "k", "l", "m", "n", "o", "p", "q", "r", "s", "t", "u", "v", "w", "x", "y", "z">>

\* String.prototype.toLowerCase, character by character
toLowerCase(str) ==
    [i \in 1..Len(str) |->
        IF \E j \in 1..Len(Upper) : Upper[j] = str[i]
        THEN Lower[CHOOSE j \in 1..Len(Upper) : Upper[j] = str[i]]
        ELSE str[i]]

\* String.prototype.startsWith
startsWith(str, prefix) ==
    /\ Len(str) >= Len(prefix)
    /\ SubSeq(str, 1, Len(prefix)) = prefix

\* mutant: the OpenAI test comes before the OpenRouter test and the short names
getProviderForModelOpenAIFirst(modelId) ==
    LET lowerModel == toLowerCase(modelId)
    IN IF startsWith(lowerModel, <<"c", "l", "a", "u", "d", "e", "-">>)
       THEN "ClaudeProvider"
       ELSE IF startsWith(lowerModel, <<"g", "p", "t", "-">>) \/ startsWith(lowerModel, <<"o">>)
       THEN "OpenAIProvider"
       ELSE IF startsWith(lowerModel, <<"o", "p", "e", "n", "r", "o", "u", "t", "e", "r", "/">>)
       THEN "OpenRouterProvider"
       ELSE "ClaudeProvider"

\* ProviderFactory.getProviderForModel: the class of the provider it returns
getProviderForModel(modelId) ==
    LET lowerModel == toLowerCase(modelId)
    IN IF \/ startsWith(lowerModel, <<"c", "l", "a", "u", "d", "e", "-">>)
          \/ lowerModel \in {<<"h", "a", "i", "k", "u">>,
                             <<"s", "o", "n", "n", "e", "t">>,
                             <<"o", "p", "u", "s">>}
       THEN "ClaudeProvider"
       ELSE IF startsWith(lowerModel, <<"o", "p", "e", "n", "r", "o", "u", "t", "e", "r", "/">>)
       THEN "OpenRouterProvider"
       ELSE IF startsWith(lowerModel, <<"g", "p", "t", "-">>) \/ startsWith(lowerModel, <<"o">>)
       THEN "OpenAIProvider"
       ELSE "ClaudeProvider"

\* the pieces model ids are made of
IdPieces ==
    {<<"c", "l", "a", "u", "d", "e", "-">>,
     <<"C", "L", "A", "U", "D", "E", "-">>,
     <<"o", "p", "u", "s">>,
     <<"O", "p", "u", "s">>,
     <<"h", "a", "i", "k", "u">>,
     <<"S", "o", "n", "n", "e", "t">>,
     <<"o", "p", "e", "n", "r", "o", "u", "t", "e", "r", "/">>,
     <<"O", "p", "e", "n", "R", "o", "u", "t", "e", "r", "/">>,
     <<"g", "p", "t", "-">>,
     <<"G", "P", "T", "-">>,
     <<"o">>,
     <<"O">>,
     <<"1">>,
     <<"x">>}

RECURSIVE IdsOf(_)
IdsOf(n) ==
    IF n = 0 THEN {<<>>}
    ELSE IdsOf(n - 1) \cup {id \o piece : id \in IdsOf(n - 1), piece \in IdPieces}

ModelIds == IdsOf(MaxPieces)

InitRoute ==
    /\ AgentInit
    /\ QueryIdle
    /\ toolPc = "ready"
    /\ toolIn \in ModelIds
    /\ toolOut = <<>>

RouteCall ==
    /\ toolPc = "ready"
    /\ toolPc' = "done"
    /\ toolOut' = getProviderForModel(toolIn)
    /\ UNCHANGED <<agentVars, queryVars, toolIn, lifeVars>>

NextRoute == RouteCall

SpecRoute == InitRoute /\ [][NextRoute]_vars

\* ---- formatUserError on its own

DEFAULT_FALLBACK == <<"An unexpected error occurred">>

RECURSIVE StringsOf(_)
StringsOf(n) ==
    IF n = 0 THEN {<<>>}
    ELSE StringsOf(n - 1)
         \cup {str \o <<c>> : str \in StringsOf(n - 1), c \in {"a", " ", "\n"}}

\* message.split('\n')[0]
firstLine(str) ==
    IF \E i \in 1..Len(str) : str[i] = "\n"
    THEN SubSeq(str, 1, (CHOOSE i \in 1..Len(str) :
                            /\ str[i] = "\n"
                            /\ \A j \in 1..(i - 1) : str[j] # "\n") - 1)
    ELSE str

\* String.prototype.trim: white space and line terminators leave both ends
RECURSIVE trimStart(_)
trimStart(str) ==
    IF str # <<>> /\ Head(str) \in {" ", "\n"} THEN trimStart(Tail(str)) ELSE str

RECURSIVE trimEnd(_)
trimEnd(str) ==
    IF str # <<>> /\ str[Len(str)] \in {" ", "\n"}
    THEN trimEnd(SubSeq(str, 1, Len(str) - 1))
    ELSE str

trim(str) == trimEnd(trimStart(str))

\* the values given as error: a string, an Error, an object with or without a
\* message property whose value is a string or not, and null, a number, undefined
ErrorValues ==
    [t : {"string", "Error"}, hasMessage : {TRUE}, isString : {TRUE},
     text : StringsOf(MaxText)]
    \cup [t : {"object"}, hasMessage : {TRUE}, isString : {TRUE},
          text : StringsOf(MaxText)]
    \cup [t : {"object"}, hasMessage : BOOLEAN, isString : {FALSE}, text : {<<>>}]
    \cup [t : {"null", "number", "undefined"}, hasMessage : {FALSE},
          isString : {FALSE}, text : {<<>>}]

\* the fallback argument: omitted or a string
Fallbacks == [given : {FALSE}, text : {<<>>}] \cup [given : {TRUE}, text : {<<"F">>}]

\* mutant: the first line of an Error's message is returned even when it is empty
formatUserErrorNoOr(error, fallbackArg) ==
    LET fallback == IF fallbackArg.given THEN fallbackArg.text ELSE DEFAULT_FALLBACK
    IN IF error.t = "string" THEN error.text
       ELSE IF error.t = "Error" THEN firstLine(error.text)
       ELSE IF /\ error.t = "object"
               /\ error.hasMessage
               /\ error.isString
               /\ trim(error.text) # <<>>
       THEN firstLine(error.text)
       ELSE fallback

formatUserError(error, fallbackArg) ==
    LET fallback == IF fallbackArg.given THEN fallbackArg.text ELSE DEFAULT_FALLBACK
    IN IF error.t = "string" THEN error.text
       ELSE IF error.t = "Error"
       THEN IF firstLine(error.text) # <<>> THEN firstLine(error.text) ELSE fallback
       ELSE IF /\ error.t = "object"
               /\ error.hasMessage
               /\ error.isString
               /\ trim(error.text) # <<>>
       THEN firstLine(error.text)
       ELSE fallback

InitFormat ==
    /\ AgentInit
    /\ QueryIdle
    /\ toolPc = "ready"
    /\ toolIn \in [error : ErrorValues, fallback : Fallbacks]
    /\ toolOut = <<>>

FormatCall ==
    /\ toolPc = "ready"
    /\ toolPc' = "done"
    /\ toolOut' = formatUserError(toolIn.error, toolIn.fallback)
    /\ UNCHANGED <<agentVars, queryVars, toolIn, lifeVars>>

NextFormat == FormatCall

SpecFormat == InitFormat /\ [][NextFormat]_vars

\* ---- OpenAIProvider.postChatCompletions on its own

\* the state of one request: the timer of setTimeout, the abort listener on the
\* turn's controller, the request's own controller, and what aborted it first
NoRequest ==
    [timer |-> "none", listener |-> FALSE, aborted |-> FALSE, cause |-> "none"]

\* controller.abort() of the request's own controller
AbortRequest(r, cause) ==
    IF r.aborted THEN r ELSE [r EXCEPT !.aborted = TRUE, !.cause = cause]

\* mutant: the finally block clears the timer only
postFinallyKeepListener(r) == [r EXCEPT !.timer = IF @ = "pending" THEN "cleared" ELSE @]

\* the finally block: clearTimeout and removeEventListener
postFinally(r) ==
    [r EXCEPT !.timer = IF @ = "pending" THEN "cleared" ELSE @,
              !.listener = FALSE]

\* toolIn: whether the caller passed its controller, and whether that controller
\* is aborted; toolOut: the request in progress and the exits of the requests made
InitPost ==
    /\ AgentInit
    /\ QueryIdle
    /\ toolPc = "ready"
    /\ toolIn \in [abortController : BOOLEAN, signalAborted : BOOLEAN]
    /\ toolOut = [request |-> NoRequest, exits |-> <<>>]

\* postChatCompletions up to the await of fetch: the timer is set and the listener
\* is registered; a listener added to an aborted signal is never called
PostBegin ==
    /\ toolPc = "ready"
    /\ Len(toolOut.exits) < MaxRequests
    /\ toolPc' = "fetch"
    /\ toolOut' = [toolOut EXCEPT !.request =
                      [timer |-> "pending", listener |-> toolIn.abortController,
                       aborted |-> FALSE, cause |-> "none"]]
    /\ UNCHANGED <<agentVars, queryVars, toolIn, lifeVars>>

\* the request timeout elapses
TimerFires ==
    /\ toolOut.request.timer = "pending"
    /\ toolOut' = [toolOut EXCEPT !.request =
                      AbortRequest([@ EXCEPT !.timer = "fired"], "timeout")]
    /\ UNCHANGED <<agentVars, queryVars, toolPc, toolIn, lifeVars>>

\* the turn's controller is aborted: a registered listener runs once
UserAborts ==
    /\ toolIn.abortController
    /\ ~toolIn.signalAborted
    /\ toolIn' = [toolIn EXCEPT !.signalAborted = TRUE]
    /\ toolOut' = IF toolOut.request.listener
                  THEN [toolOut EXCEPT !.request =
                           AbortRequest([@ EXCEPT !.listener = FALSE], "user")]
                  ELSE toolOut
    /\ UNCHANGED <<agentVars, queryVars, toolPc, lifeVars>>

\* the await of fetch ends and the finally block runs: a response (ok or not), a
\* network failure, or the rejection of an aborted request; an abort that comes
\* after the response has arrived no longer changes how the await ends
PostExit(how) ==
    /\ toolPc = "fetch"
    /\ how = "aborted" => toolOut.request.aborted
    /\ toolPc' = "ready"
    /\ toolOut' = [request |-> postFinally(toolOut.request),
                   exits |-> Append(toolOut.exits, how)]
    /\ UNCHANGED <<agentVars, queryVars, toolIn, lifeVars>>

NextPost ==
    \/ PostBegin
    \/ TimerFires
    \/ UserAborts
    \/ \E how \in {"response", "notOk", "networkFailure", "aborted"} : PostExit(how)

SpecPost == InitPost /\ [][NextPost]_vars

\* ------------------------------------------- a turn driven by executeQuery

\* the text of an edit-intent block that validateAndSetScope rejects
BadIntent == "i"

HasBadIntent(text) == \E i \in 1..Len(text) : text[i] = BadIntent

RECURSIVE EmitTimes(_, _, _)
EmitTimes(s, e, n) == IF n = 0 THEN s ELSE EmitTimes(emitAgentEvent(s, e), e, n - 1)

\* mutant: the result text does not replace the content of the assistant Message
RelayResultKeep(s, t, msg) ==
    emitAgentEvent(s, Event("complete", t, <<>>, 0))

\* the result message in the stream loop
RelayResult(s, t, msg) ==
    LET set == [i \in 1..Len(s.messages) |->
                    IF s.messages[i].tid = t /\ s.messages[i].kind = "assistant"
                    THEN [s.messages[i] EXCEPT !.content = msg.text]
                    ELSE s.messages[i]]
        s1 == IF msg.text # <<>> /\ s.turns[t].asst
              THEN [s EXCEPT !.messages = set, !.turns[t].resp = msg.text]
              ELSE s
    IN emitAgentEvent(s1, Event("complete", t, <<>>, 0))

\* the body of the stream loop for one ProviderMessage
RelayMessage(s, t, msg) ==
    CASE msg.type = "text" ->
            LET g == GrowResponse(s, t, msg.text)
            IN IF HasBadIntent(g.turns[t].resp)
               THEN CatchError(g, t)
               ELSE emitAgentEvent(g, StreamEvent(t, g.turns[t].resp))
      [] msg.type = "tool_use" -> EmitTimes(s, Event("tool_use", t, <<>>, 0), msg.n)
      [] msg.type = "tool_result" -> s
      [] msg.type = "result" -> RelayResult(s, t, msg)

\* the generator runs only when the stream loop asks for the next message
Pull(t) ==
    /\ turns[t].pc = "streaming"
    /\ turns[t].relayed = Len(out)

\* the stream loop receives the next yielded message
Relay(t) ==
    /\ turns[t].pc = "streaming"
    /\ turns[t].relayed < Len(out)
    /\ Assign(RelayMessage([Cur EXCEPT !.turns[t].relayed = @ + 1], t,
                           out[turns[t].relayed + 1]))

\* the generator has ended: the loop exits, or the catch block is entered
RelayEnd(t) ==
    /\ Pull(t)
    /\ qpc = "done"
    /\ Assign(CASE qResult = "success" -> SetPc(saveSession(Cur, messages), t, "finalSaving")
                [] qResult = "aborted" -> CatchAbort(Cur, t)
                [] OTHER -> CatchError(Cur, t))

\* stopExecution while the turn's provider may be awaiting fetch: the abort listener
\* of postChatCompletions is attached only while the fetch is pending
StopTurn(t) ==
    /\ AssignAgent(StopState)
    /\ qpc' = IF /\ qpc = "awaitResponse"
                 /\ abortController # 0
                 /\ turns[t].ctrl = abortController
              THEN "awaitAborted"
              ELSE qpc
    /\ UNCHANGED <<qResult, hasApiKey, maxTurns, allowedTools, iterations, requests,
                   chunks, acc, assistantText, finishReason, out, activeMessages>>

\* the pending fetch rejects with an abort error
FetchAborted ==
    /\ qpc = "awaitAborted"
    /\ QueryDone("aborted")
    /\ UNCHANGED <<hasApiKey, maxTurns, allowedTools, iterations, requests,
                   chunks, acc, assistantText, finishReason, out, activeMessages>>
    /\ UNCHANGED <<agentVars, toolVars, lifeVars>>

\* the chunks a backend sends in the whole-turn runs
TurnChunks ==
    {TextChunk(<<"a">>), TextChunk(<<"b">>), TextChunk(<<BadIntent>>),
     ToolChunk(TcDelta(0, "call", "Glob", <<>>))}

InitTurn ==
    /\ AgentInit
    /\ ToolIdle
    /\ QueryInitCommon
    /\ hasApiKey \in BOOLEAN
    /\ maxTurns \in 1..MaxBudget
    /\ allowedTools = Undefined

ProviderStep ==
    \/ QueryStart
    \/ ResponseArrives
    \/ RequestFails
    \/ \E c \in TurnChunks : Len(chunks) < MaxChunks /\ StreamChunk(c)
    \/ ChunkReadFails
    \/ StreamDone
    \/ \E o \in [1..Len(ToolCallsOf(acc)) -> Outcomes] : ToolsDone(o)

\* one send on a started session, its stream produced by executeQuery
NextTurn ==
    \/ nextTid = 1 /\ SendMessage("", 0)
    \/ Prepare(1)
    \/ Pull(1) /\ ProviderStep
    \/ Relay(1)
    \/ RelayEnd(1)
    \/ FinalSaveDone(1)
    \/ ErrSaveDone(1)

SpecTurn == InitTurn /\ [][NextTurn]_vars

\* the same turn with stopExecution called at any moment
NextCancel ==
    \/ NextTurn
    \/ StopTurn(1)
    \/ FetchAborted

SpecCancel == InitTurn /\ [][NextCancel]_vars

\* ------------------------------------------------------------------ claims

\* a sendMessage execution past the running check and before its exit
InFlight(t) ==
    turns[t].pc \in {"updating", "reading", "preparing", "streaming",
                     "finalSaving", "errSaving"}

Exited(t) == turns[t].pc \in {"returned", "aborted", "threw"}

TypesOf(log) == [i \in 1..Len(log) |-> log[i].type]

CountType(log, type) == Cardinality({i \in 1..Len(log) : log[i].type = type})

ErrorMessages(t) ==
    {i \in 1..Len(messages) : messages[i].tid = t /\ messages[i].isError}

\* C1: at most one sendMessage execution of the conversation is in flight (past
\* the running check, not yet returned, aborted or thrown) in every reachable state.
C1_AtMostOneTurnInFlight ==
    Cardinality({t \in Tids : InFlight(t)}) <= 1

\* a step in which sendMessage execution t runs its running check
SendCalled(t) ==
    /\ turns[t].pc \in {"none", "qsaving"}
    /\ turns'[t].pc \notin {"none", "qsaving"}

\* C2: a send on an Active conversation throws AlreadyRunning and leaves history,
\* queue, running flag, cancellation handle, session model and transcript as they
\* were; a caller's send emits no event at all.
C2_SendWhileActiveRejected ==
    [][\A t \in Tids :
         (SendCalled(t) /\ isRunning) =>
            /\ turns'[t].pc = "rejected"
            /\ turns'[t].rkind = "throw"
            /\ turns'[t].err = "AlreadyRunning"
            /\ UNCHANGED <<messages, promptQueue, isRunning, abortController,
                           sessModel, disk, aborted, drainPending>>
            /\ events'[t] = events[t]
            /\ (turns'[t].via = "caller" => events' = events)]_vars

C2_Witness ==
    \E t \in Tids : turns[t].pc = "rejected" /\ turns[t].via = "caller"

Quiescent ==
    /\ drainPending = 0
    /\ queueOps = <<>>
    /\ \A t \in Tids : ~InFlight(t) /\ turns[t].pc # "qsaving"

QueueUpdates ==
    LET log == events[0]
        idx == {i \in 1..Len(log) : log[i].type = "queue_updated"}
        nth[n \in 0..Len(log)] ==
            IF n = 0 THEN <<>>
            ELSE IF n \in idx THEN Append(nth[n - 1], log[n].queue) ELSE nth[n - 1]
    IN nth[Len(log)]

\* the queued prompt of a one-prompt run was sent as a new turn by the drain
QueuedPromptRan ==
    /\ nextTid = 3
    /\ turns[2].via = "queue"
    /\ turns[2].pid = 1
    /\ Exited(2)
    /\ Len(events[2]) >= 1
    /\ events[2][1].type = "started"
    /\ promptQueue = <<>>

\* C4 as stated: one prompt enqueued during an Active turn that then completes is
\* sent as a new turn without a caller send, and exactly two queue_updated events
\* exist once everything has run: the queue of that one prompt, then the empty queue.
C4_EnqueueEventCarriesItem ==
    (nextPid = 2 /\ turns[1].pc = "returned" /\ Quiescent) =>
        /\ QueuedPromptRan
        /\ Len(QueueUpdates) = 2
        /\ Len(QueueUpdates[1]) = 1
        /\ QueueUpdates[1][1].id = 1
        /\ QueueUpdates[2] = <<>>

\* C4 amended: one prompt enqueued during an Active turn that then completes is
\* sent as a new turn without a caller send, and exactly two queue_updated events
\* exist once everything has run, each carrying the queue as it was when emitted:
\* the last one the empty queue, the first one the queue of that prompt or, when
\* the drain removed the prompt before enqueue's save resolved, the empty queue.
C4_QueuedPromptRunsAutomatically ==
    (nextPid = 2 /\ turns[1].pc = "returned" /\ Quiescent) =>
        /\ QueuedPromptRan
        /\ Len(QueueUpdates) = 2
        /\ QueueUpdates[2] = <<>>
        /\ \/ QueueUpdates[1] = <<>>
           \/ (Len(QueueUpdates[1]) = 1 /\ QueueUpdates[1][1].id = 1)

C4_Witness ==
    /\ nextPid = 2
    /\ turns[1].pc = "returned"
    /\ turns[1].via = "caller"
    /\ turns[2].pc = "returned"
    /\ turns[2].via = "queue"
    /\ Quiescent
    /\ Len(QueueUpdates) = 2
    /\ QueueUpdates[1] = <<>>

C6_DrainIsDeferred ==
    /\ [][/\ \A t \in Tids :
               (turns[t].pc # "returned" /\ turns'[t].pc = "returned") =>
                  /\ isRunning' = FALSE
                  /\ abortController' = 0
                  /\ promptQueue' = promptQueue
                  /\ nextTid' = nextTid
                  /\ events' = events
                  /\ drainPending' = drainPending + 1
          /\ \A q \in Tids :
               (turns[q].pc # "qsaving" /\ turns'[q].pc = "qsaving") =>
                  /\ drainPending > 0
                  /\ drainPending' = drainPending - 1
                  /\ ~isRunning
                  /\ \E u \in Tids : turns[u].pc = "returned"
                  /\ promptQueue' = Tail(promptQueue)
                  /\ events'[q] = <<>>]_vars
    /\ [](drainPending <= Cardinality({t \in Tids : turns[t].pc = "returned"}))

C6_Witness ==
    \E t \in Tids : turns[t].via = "queue" /\ turns[t].pc = "preparing"

\* C7: a turn failing with a non-abort error after its user Message was appended
\* appends one error-flagged assistant Message, persists the history, leaves the
\* conversation Idle with no handle, then emits one error event and re-throws.
C7_ErrorRecordedOnce ==
    /\ [][\A t \in Tids :
            /\ (turns[t].pc # "errSaving" /\ turns'[t].pc = "errSaving") =>
                   /\ turns[t].pc \in {"preparing", "streaming"}
                   /\ messages' = Append(messages, Message(t, "error"))
                   /\ Message(t, "error").role = "assistant"
                   /\ Message(t, "error").isError
                   /\ disk' = messages'
                   /\ isRunning' = FALSE
                   /\ abortController' = 0
                   /\ events'[t] = events[t]
            /\ (turns[t].pc = "errSaving" /\ turns'[t].pc # "errSaving") =>
                   /\ turns'[t].pc = "threw"
                   /\ turns'[t].rkind = "throw"
                   /\ turns'[t].err = "failure"
                   /\ events'[t] = Append(events[t], Event("error", t, <<>>, 0))
                   /\ messages' = messages]_vars
    /\ [](\A t \in Tids :
            /\ CountType(events[t], "error") = IF turns[t].pc = "threw" THEN 1 ELSE 0
            /\ Cardinality(ErrorMessages(t)) <= 1
            /\ turns[t].pc \in {"errSaving", "threw"} =>
                   CountType(events[t], "message") = 1)

C7_Witness ==
    \E t \in Tids :
        /\ turns[t].pc = "threw"
        /\ Cardinality(ErrorMessages(t)) = 1
        /\ disk = messages

\* the text of the content deltas of a chunk sequence, in arrival order
RECURSIVE TextOf(_)
TextOf(cs) ==
    IF cs = <<>> THEN <<>>
    ELSE (IF Head(cs).hasDelta THEN Head(cs).content ELSE <<>>) \o TextOf(Tail(cs))

\* the tool-call deltas of one slot in a chunk sequence, in arrival order
RECURSIVE DeltasOfSlot(_, _)
DeltasOfSlot(cs, i) ==
    IF cs = <<>> THEN <<>>
    ELSE (IF Head(cs).hasDelta /\ Head(cs).hasTc /\ Head(cs).tc.index = i
          THEN <<Head(cs).tc>> ELSE <<>>) \o DeltasOfSlot(Tail(cs), i)

RECURSIVE LastId(_)
LastId(ds) ==
    IF ds = <<>> THEN ""
    ELSE IF ds[Len(ds)].id # "" THEN ds[Len(ds)].id ELSE LastId(SubSeq(ds, 1, Len(ds) - 1))

RECURSIVE LastName(_)
LastName(ds) ==
    IF ds = <<>> THEN ""
    ELSE IF ds[Len(ds)].name # "" THEN ds[Len(ds)].name
         ELSE LastName(SubSeq(ds, 1, Len(ds) - 1))

RECURSIVE ConcatArgs(_)
ConcatArgs(ds) ==
    IF ds = <<>> THEN <<>> ELSE Head(ds).arguments \o ConcatArgs(Tail(ds))

Failed == qResult \in {"requestFailed", "streamFailed"}

\* the tool calls the per-slot projections of the chunks describe, by ascending slot
RECURSIVE ExpectedCalls(_)
ExpectedCalls(i) ==
    IF i > MaxSlot THEN <<>>
    ELSE LET ds == DeltasOfSlot(chunks, i)
         IN (IF LastId(ds) # "" /\ LastName(ds) # ""
             THEN <<TcDelta(i, LastId(ds), LastName(ds), ConcatArgs(ds))>>
             ELSE <<>>) \o ExpectedCalls(i + 1)

NoCompleteSlot == \A i \in 1..Len(acc) : acc[i].id = "" \/ acc[i].name = ""

\* C8: a response that accumulates no complete tool call ends the query with one
\* result/success event carrying the text accumulated from that response; the
\* result event is unique, it is the last event, and the generator is done.
C8_SingleResultIsLast ==
    /\ CountType(out, "result") <= 1
    /\ (CountType(out, "result") = 1 =>
          /\ qpc = "done"
          /\ qResult = "success"
          /\ out[Len(out)].type = "result"
          /\ out[Len(out)].text = TextOf(chunks)
          /\ NoCompleteSlot
          /\ requests = iterations)
    /\ (qpc = "done" /\ requests >= 1 /\ ~Failed /\ NoCompleteSlot) =>
          /\ qResult = "success"
          /\ CountType(out, "result") = 1
    /\ (qpc = "tools") => ~NoCompleteSlot

C8_Witness ==
    /\ qpc = "done"
    /\ qResult = "success"
    /\ requests = 1
    /\ Len(out) = 2
    /\ out[2].text = <<"a">>

\* C9: whatever the arrival order of the chunks, each slot's accumulator entry holds
\* the last id and the last name sent for that slot and the concatenation of that
\* slot's argument fragments in their own order; there is one entry per slot, and
\* the resulting tool calls are those of the per-slot projections, by ascending slot.
C9_AccumulationBySlot ==
    /\ \A i \in Slots :
          LET ds == DeltasOfSlot(chunks, i)
              at == {j \in 1..Len(acc) : acc[j].index = i}
          IN IF ds = <<>>
             THEN at = {}
             ELSE /\ Cardinality(at) = 1
                  /\ \A j \in at :
                        /\ acc[j].id = LastId(ds)
                        /\ acc[j].name = LastName(ds)
                        /\ acc[j].arguments = ConcatArgs(ds)
    /\ \A j \in 1..Len(acc) : acc[j].index \in Slots
    /\ ToolCallsOf(acc) = ExpectedCalls(0)

C9_Witness ==
    /\ qpc = "tools"
    /\ Len(chunks) = 4
    /\ chunks[1].tc.index = 1
    /\ chunks[2].tc.index = 0
    /\ chunks[3].tc.index = 1
    /\ chunks[4].tc.index = 0
    /\ Len(ToolCallsOf(acc)) = 2
    /\ ToolCallsOf(acc)[1].name = "Glob"
    /\ ToolCallsOf(acc)[1].arguments = <<"}">>
    /\ ToolCallsOf(acc)[2].name = "Read"
    /\ ToolCallsOf(acc)[2].arguments = <<"{">>

\* C10: the tool loop terminates; it opens at most maxTurns requests; it ends with a
\* result event after a response without tool calls, or with the maxTurns error when
\* the budget is used up, and then no result event was emitted.
C10_ToolLoopTerminates ==
    /\ [](/\ requests <= maxTurns
           /\ requests = iterations
           /\ (qResult = "success" =>
                 /\ NoCompleteSlot
                 /\ out[Len(out)].type = "result")
           /\ (qResult = "maxTurnsExceeded" =>
                 /\ requests = maxTurns
                 /\ CountType(out, "result") = 0
                 /\ (maxTurns > 0 => ~NoCompleteSlot))
           /\ ((qpc = "done" /\ hasApiKey /\ ~Failed) =>
                 qResult \in {"success", "maxTurnsExceeded"}))
    /\ <>(qpc = "done")

C10_Witness ==
    /\ qpc = "done"
    /\ qResult = "maxTurnsExceeded"
    /\ requests = MaxBudget
    /\ CountType(out, "tool_use") = MaxBudget

\* C11: after a send whose backend answered with tool calls and then, in a later
\* request, with a final text and no tool call has returned, the history is one user
\* Message and one assistant Message whose content is the final text (whatever text
\* was streamed before the tool call), and complete is the last event of the turn.
C11_ToolLoopTurnEndsWithFinalText ==
    (turns[1].pc = "returned" /\ requests >= 2 /\ TextOf(chunks) # <<>>) =>
        /\ Len(messages) = 2
        /\ messages[1].kind = "user"
        /\ messages[2].kind = "assistant"
        /\ messages[2].role = "assistant"
        /\ ~messages[2].isError
        /\ messages[2].content = TextOf(chunks)
        /\ CountType(events[1], "complete") = 1
        /\ events[1][Len(events[1])].type = "complete"

C11_Witness ==
    /\ turns[1].pc = "returned"
    /\ requests = 2
    /\ CountType(out, "tool_use") = 1
    /\ out[1].type = "text"
    /\ out[1].text = <<"a">>
    /\ TextOf(chunks) = <<"b">>
    /\ messages[2].content = <<"b">>

\* replacing every non-overlapping occurrence of old, scanning left to right
RECURSIVE ReplaceEvery(_, _, _)
ReplaceEvery(text, old, new) ==
    IF Len(text) < Len(old) THEN text
    ELSE IF SubSeq(text, 1, Len(old)) = old
         THEN new \o ReplaceEvery(SubSeq(text, Len(old) + 1, Len(text)), old, new)
         ELSE <<Head(text)>> \o ReplaceEvery(Tail(text), old, new)

RECURSIVE Occurrences(_, _)
Occurrences(text, old) ==
    IF Len(text) < Len(old) THEN 0
    ELSE IF SubSeq(text, 1, Len(old)) = old
         THEN 1 + Occurrences(SubSeq(text, Len(old) + 1, Len(text)), old)
         ELSE Occurrences(Tail(text), old)

\* replacing the leftmost occurrence of old
RECURSIVE ReplaceFirst(_, _, _)
ReplaceFirst(text, old, new) ==
    IF Len(text) < Len(old) THEN text
    ELSE IF SubSeq(text, 1, Len(old)) = old
         THEN new \o SubSeq(text, Len(old) + 1, Len(text))
         ELSE <<Head(text)>> \o ReplaceFirst(Tail(text), old, new)

\* one edit of an existing file whose old text is not empty and occurs in the file
OneEditApplies ==
    /\ toolPc = "done"
    /\ toolIn.exists
    /\ Len(toolIn.edits) = 1
    /\ toolIn.edits[1].old # <<>>
    /\ Occurrences(toolIn.content, toolIn.edits[1].old) > 0

EditExpected ==
    LET e == toolIn.edits[1]
    IN IF e.replaceAll THEN ReplaceEvery(toolIn.content, e.old, e.new)
       ELSE ReplaceFirst(toolIn.content, e.old, e.new)

EditExpectedCount ==
    LET e == toolIn.edits[1]
    IN IF e.replaceAll THEN Occurrences(toolIn.content, e.old) ELSE 1

\* C12 as stated: for every content and every non-empty old text that occurs in it,
\* the edit replaces every occurrence (replaceAll) or the first one and reports the
\* number of replacements.
C12_EditReplacesAndReports ==
    OneEditApplies =>
        /\ toolOut.file = EditExpected
        /\ toolOut.kind = "updated"
        /\ toolOut.count = EditExpectedCount

\* C12 amended: when the old text has a non-blank character and the replacement
\* changes the content, the file holds the replaced content and the report gives
\* the number of replacements; when the replacement leaves the content as it was,
\* "no changes" is reported without a count and without an error; an old text of
\* blanks only is refused with an error and the file is left as it was.
C12_EditReplacement ==
    OneEditApplies =>
        IF ~HasNonSpace(toolIn.edits[1].old)
        THEN /\ toolOut.isError
             /\ toolOut.kind = "noold"
             /\ toolOut.file = toolIn.content
        ELSE /\ toolOut.file = EditExpected
             /\ ~toolOut.isError
             /\ IF EditExpected = toolIn.content
                THEN toolOut.kind = "nochange"
                ELSE /\ toolOut.kind = "updated"
                     /\ toolOut.count = EditExpectedCount

C12_Witness ==
    /\ OneEditApplies
    /\ toolIn.content = <<"a", "b", "a">>
    /\ toolIn.edits[1] = Edit(<<"a">>, <<"b">>, TRUE)
    /\ toolOut.file = <<"b", "b", "b">>
    /\ toolOut.count = 2

\* what decides that call i of the list is handed to its tool
CallRuns(i) ==
    /\ toolIn.calls[i].name \in ToolCatalog
    /\ ~toolIn.allowed.defined \/ toolIn.calls[i].name \in toolIn.allowed.names
    /\ toolIn.calls[i].arguments \in {<<>>, <<"{", "}">>}

\* C13: executeToolCalls returns one result per call, in call order, with the call's
\* id; an unknown tool, an invalid argument string and a throwing tool each give an
\* error-flagged result, and every other call of the list is still executed.
C13_OneResultPerCall ==
    toolPc = "done" =>
        /\ Len(toolOut.results) = Len(toolIn.calls)
        /\ \A i \in 1..Len(toolIn.calls) :
              /\ toolOut.results[i].id = toolIn.calls[i].id
              /\ toolOut.results[i].name = toolIn.calls[i].name
              /\ toolOut.results[i].ran = CallRuns(i)
              /\ toolOut.results[i].isError = (~CallRuns(i) \/ toolIn.outcomes[i] # "ok")

C13_Witness ==
    /\ toolPc = "done"
    /\ Len(toolIn.calls) = 2
    /\ toolIn.calls[1].name = "Nope"
    /\ toolIn.outcomes[2] = "ok"
    /\ toolOut.results[1].id = "c1"
    /\ toolOut.results[1].isError
    /\ toolOut.results[2].id = "c2"
    /\ toolOut.results[2].ran
    /\ ~toolOut.results[2].isError

\* C18: a call is handed to its tool only if its name is in the fixed catalog and in
\* the turn's allowedTools (any catalog tool when allowedTools is undefined); every
\* other call gets an error-flagged 'not available' result; the tools advertised are
\* exactly the approved ones: none for an empty list, the catalog for undefined.
C18_OnlyApprovedToolsRun ==
    toolPc = "done" =>
        LET approved == IF toolIn.allowed.defined
                        THEN toolIn.allowed.names \cap
                             {"Read", "Write", "Edit", "Glob", "Grep", "Bash", "WebFetch"}
                        ELSE {"Read", "Write", "Edit", "Glob", "Grep", "Bash", "WebFetch"}
        IN /\ toolOut.advertised = approved
           /\ \A i \in 1..Len(toolOut.results) :
                 /\ toolOut.results[i].ran => toolIn.calls[i].name \in approved
                 /\ toolIn.calls[i].name \notin approved =>
                       /\ ~toolOut.results[i].ran
                       /\ toolOut.results[i].isError
                       /\ toolOut.results[i].content = "notAvailable"

C18_Witness ==
    /\ toolPc = "done"
    /\ toolIn.allowed = Names({"Read"})
    /\ Len(toolIn.calls) = 2
    /\ toolIn.calls[1].name = "Bash"
    /\ toolIn.calls[1].arguments = <<"{", "}">>
    /\ toolOut.results[1].content = "notAvailable"
    /\ toolIn.calls[2].name = "Read"
    /\ toolOut.results[2].ran
    /\ toolOut.advertised = {"Read"}

\* C19: the Bash tool starts a command only in a working directory that passes
\* the Path Guard: when the resolved cwd (the given cwd resolved against the
\* context cwd, or the context cwd itself) is not allowed, the result is
\* error-flagged and the command is never started.
GivenCwd == toolIn.hasCwd /\ (toolIn.cwd.abs \/ toolIn.cwd.segs # <<>>)
ResolvedCwd ==
    IF ~GivenCwd THEN toolIn.contextCwd
    ELSE IF toolIn.cwd.abs THEN toolIn.cwd
    ELSE Path(TRUE, Normalize(toolIn.contextCwd.segs \o toolIn.cwd.segs, <<>>))

C19_BashRunsOnlyInAllowedCwd ==
    toolPc = "done" =>
        /\ toolOut.started => (toolOut.cwd = ResolvedCwd /\ isPathAllowed(toolOut.cwd))
        /\ ~isPathAllowed(ResolvedCwd) => (toolOut.isError /\ ~toolOut.started)

C19_Witness ==
    /\ toolPc = "done"
    /\ toolIn.command = <<"a">>
    /\ toolIn.contextCwd = Path(TRUE, <<"p">>)
    /\ toolIn.hasCwd
    /\ toolIn.cwd = Path(FALSE, <<"..", "e">>)
    /\ toolOut.content = "cwdNotAllowed"
    /\ ~toolOut.started

\* C20: the timeout of a shell command is the shorter of the given timeout and
\* 120000 ms: min(t, 120000) for a given timeout t, 120000 when none is given.
GivenTimeout ==
    IF toolIn.timeout_ms.kind # "undefined" THEN toolIn.timeout_ms ELSE toolIn.timeoutMs

C20_TimeoutIsShorterOfGivenAndDefault ==
    (toolPc = "done" /\ toolOut.started) =>
        /\ GivenTimeout.kind = "undefined" => toolOut.timeout = 120000
        /\ GivenTimeout.kind = "number" =>
              toolOut.timeout = IF GivenTimeout.n < 120000 THEN GivenTimeout.n ELSE 120000

\* C14: deleteSession removes the metadata entry, the transcript file and the
\* queue file together and evicts the in-memory conversation: when it returns
\* none of the four exists, so a later start hydrates an empty history and an
\* empty queue.
C14_DeleteRemovesEverything ==
    [][(metadata /\ ~metadata') =>
          /\ ~loaded'
          /\ "session" \notin files'
          /\ "queue" \notin files'
          /\ loadSession' = <<>>
          /\ loadQueueState' = <<>>]_vars

\* C15: once stop has invoked the cancellation handle of an Active turn, the
\* turn executes no further tool call, opens no further backend request, relays
\* no further event to subscribers and no longer changes the history.
Cancelled(t) == turns[t].ctrl # 0 /\ turns[t].ctrl \in aborted
ToolResultsFed == Len(SelectSeq(activeMessages, LAMBDA m : m.role = "tool"))

C15_NothingHappensAfterStop ==
    [][Cancelled(1) =>
          /\ ToolResultsFed' = ToolResultsFed
          /\ requests' = requests
          /\ events'[1] = events[1]
          /\ messages' = messages]_vars

\* C17: a failure of a queued send is reported as exactly one queue-error event
\* with the id of the dequeued prompt; the failed prompt is not put back, the
\* prompts behind it stay queued in their order, and the conversation is Idle.
QueuedSendFails(t) ==
    /\ turns[t].via = "queue"
    /\ turns[t].rkind # "throw"
    /\ turns'[t].rkind = "throw"

QueueErrorsOf(pid) ==
    Len(SelectSeq(events[0], LAMBDA e : e.type = "queue_error" /\ e.pid = pid))

\* sendMessage executions that have set the running flag and not yet reset it
HoldsRunning(t) == turns[t].pc \in {"preparing", "streaming", "finalSaving"}

C17_QueuedFailureLeavesIdle ==
    /\ [][\A t \in Tids :
            QueuedSendFails(t) =>
               /\ events'[0][Len(events'[0])] =
                     Event("queue_error", 0, <<>>, turns[t].pid)
               /\ CountType(events'[0], "queue_error") =
                     CountType(events[0], "queue_error") + 1
               /\ promptQueue' = promptQueue
               /\ \A i \in 1..Len(promptQueue') : promptQueue'[i].id # turns[t].pid
               /\ isRunning' = FALSE]_vars
    /\ [](\A t \in Tids :
            turns[t].via = "queue" =>
               QueueErrorsOf(turns[t].pid) = IF turns[t].rkind = "throw" THEN 1 ELSE 0)

\* C17 (amended): ... and the failed send holds no running flag: the conversation
\* is Idle unless another send, started meanwhile, has its turn in progress.
C17_QueuedFailureReportedOnce ==
    /\ [][\A t \in Tids :
            QueuedSendFails(t) =>
               /\ events'[0][Len(events'[0])] =
                     Event("queue_error", 0, <<>>, turns[t].pid)
               /\ CountType(events'[0], "queue_error") =
                     CountType(events[0], "queue_error") + 1
               /\ promptQueue' = promptQueue
               /\ \A i \in 1..Len(promptQueue') : promptQueue'[i].id # turns[t].pid
               /\ ~HoldsRunning(t)'
               /\ isRunning' => \E u \in Tids \ {t} : HoldsRunning(u)']_vars
    /\ [](\A t \in Tids :
            turns[t].via = "queue" =>
               QueueErrorsOf(turns[t].pid) = IF turns[t].rkind = "throw" THEN 1 ELSE 0)

\* a queued send has failed in its turn while another prompt was behind it
C17_Witness ==
    \E t \in Tids :
        /\ turns[t].via = "queue"
        /\ turns[t].pc = "threw"
        /\ QueueErrorsOf(turns[t].pid) = 1
        /\ Len(promptQueue) = 1
        /\ promptQueue[1].id # turns[t].pid
        /\ ~isRunning

\* C16: every queue mutation (enqueue, remove, clear, the dequeue of a drain)
\* persists the queue as it is after the mutation and emits exactly one
\* queue_updated event whose payload is that queue; list and a remove of an
\* unknown id emit nothing and leave the queue unchanged.
QueueCallBegins == Len(queueOps') = Len(queueOps) + 1
QueueCallEnds(i) ==
    /\ i \in 1..Len(queueOps)
    /\ queueOps' = SubSeq(queueOps, 1, i - 1) \o SubSeq(queueOps, i + 1, Len(queueOps))
DrainBegins(t) == turns[t].pc = "none" /\ turns'[t].pc = "qsaving"
DrainEnds(t) == turns[t].pc = "qsaving" /\ turns'[t].pc # "qsaving"
QueueUpdated(queue) == Event("queue_updated", 0, queue, 0)
UnknownIds == {id \in 1..(MaxQueued + MaxQueueCalls) :
                  \A i \in 1..Len(promptQueue) : promptQueue[i].id # id}

QueueUntouchedElsewhere ==
    (/\ ~QueueCallBegins
     /\ \A i \in 1..Len(queueOps) : ~QueueCallEnds(i)
     /\ \A t \in Tids : ~DrainBegins(t) /\ ~DrainEnds(t)) =>
        /\ promptQueue' = promptQueue
        /\ queueFile' = queueFile
        /\ events'[0] = events[0]

C16_EventCarriesQueueAfterMutation ==
    /\ [][/\ QueueCallBegins =>
              /\ queueFile' = promptQueue'
              /\ queueOps'[Len(queueOps')].saved = promptQueue'
              /\ events'[0] = events[0]
          /\ \A i \in 1..Len(queueOps) :
                QueueCallEnds(i) =>
                   /\ events'[0] = Append(events[0], QueueUpdated(queueOps[i].saved))
                   /\ promptQueue' = promptQueue
          /\ \A t \in Tids :
                /\ DrainBegins(t) =>
                      /\ promptQueue' = Tail(promptQueue)
                      /\ queueFile' = promptQueue'
                      /\ turns'[t].saved = promptQueue'
                      /\ events'[0] = events[0]
                /\ DrainEnds(t) =>
                      /\ events'[0] = Append(events[0], QueueUpdated(turns[t].saved))
                      /\ promptQueue' = promptQueue
          /\ QueueUntouchedElsewhere]_vars
    /\ [](\A id \in UnknownIds : removeFromQueue(Cur, id) = Cur)
    /\ [](getQueue(Cur) = promptQueue)

\* C16 (amended): every queue mutation persists the queue as it is after the
\* mutation and then emits exactly one queue_updated event; the event of enqueue,
\* remove and drain carries the queue as it is when the event is emitted, the
\* event of clear the empty queue; list and a remove of an unknown id emit
\* nothing and leave the queue unchanged.
C16_EveryMutationEmitsOnce ==
    /\ [][/\ QueueCallBegins =>
              /\ queueFile' = promptQueue'
              /\ queueOps'[Len(queueOps')].saved = promptQueue'
              /\ events'[0] = events[0]
          /\ \A i \in 1..Len(queueOps) :
                QueueCallEnds(i) =>
                   /\ events'[0] =
                         Append(events[0],
                                QueueUpdated(IF queueOps[i].op = "clear" THEN <<>>
                                             ELSE promptQueue))
                   /\ promptQueue' = promptQueue
          /\ \A t \in Tids :
                /\ DrainBegins(t) =>
                      /\ promptQueue' = Tail(promptQueue)
                      /\ queueFile' = promptQueue'
                      /\ events'[0] = events[0]
                /\ DrainEnds(t) =>
                      /\ events'[0] = Append(events[0], QueueUpdated(promptQueue))
                      /\ promptQueue' = promptQueue
          /\ QueueUntouchedElsewhere]_vars
    /\ [](\A id \in UnknownIds : removeFromQueue(Cur, id) = Cur)
    /\ [](getQueue(Cur) = promptQueue)

\* an enqueue, a remove and a clear have each emitted; the first event was
\* emitted after the remove and so carries the queue without the removed prompt
C16_Witness ==
    /\ queueOps = <<>>
    /\ turns[1].pc = "none"
    /\ nextPid = 3
    /\ Len(QueueUpdates) = 3
    /\ Len(QueueUpdates[1]) = 1
    /\ QueueUpdates[1][1].id = 2
    /\ QueueUpdates[2] = QueueUpdates[1]
    /\ QueueUpdates[3] = <<>>
    /\ promptQueue = <<>>
    /\ queueFile = <<>>

\* C21: a conversation that is in memory has an entry in the metadata index.
C21_LoadedHasMetadata == loaded => metadata

\* C22: every turn hands the provider the working directory stored at start,
\* whatever working directory its send call carried.
C22_TurnUsesPinnedDirectory ==
    \A t \in Tids : turns[t].cwd # NoPath => turns[t].cwd = workingDirectory

\* C23: a start of a conversation that is in memory returns its history and
\* changes nothing, a turn in progress or not; a start whose working directory
\* the Path Guard refuses throws and leaves the conversation out of memory.
C23_StartIsIdempotent ==
    [][startResult'.calls # startResult.calls =>
          /\ loaded =>
                /\ UNCHANGED <<agentVars, loaded, metadata, workingDirectory,
                               sdkSessionId>>
                /\ startResult'.kind = "value"
                /\ startResult'.messages = messages
          /\ (~loaded /\ ~isPathAllowed(resolveWorkingDirectory(startResult'.given))) =>
                /\ UNCHANGED <<agentVars, loaded, metadata, workingDirectory,
                               sdkSessionId>>
                /\ startResult'.kind = "throw"]_vars

\* a second start has returned the history while a turn is in progress
C23_Witness ==
    /\ startResult.calls = 2
    /\ startResult.kind = "value"
    /\ startResult.messages # <<>>
    /\ isRunning
    /\ sdkSessionId # 0

\* C24: routing gives every id one provider, looks at the id in lower case only,
\* sends 'claude-' ids and the ids haiku, sonnet and opus to the native-session
\* family, 'openrouter/' ids to OpenRouter, other 'gpt-' and 'o' ids to OpenAI and
\* every other id to the native-session family; opus and 'openrouter/' ids never
\* go to OpenAI.
C24_RoutingAsDocumented ==
    toolPc = "done" =>
        LET id == toLowerCase(toolIn)
            claude == \/ startsWith(id, <<"c", "l", "a", "u", "d", "e", "-">>)
                      \/ id = <<"h", "a", "i", "k", "u">>
                      \/ id = <<"s", "o", "n", "n", "e", "t">>
                      \/ id = <<"o", "p", "u", "s">>
            openrouter == startsWith(id, <<"o", "p", "e", "n", "r", "o", "u", "t", "e", "r", "/">>)
            openai == startsWith(id, <<"g", "p", "t", "-">>) \/ startsWith(id, <<"o">>)
        IN /\ toolOut \in {"ClaudeProvider", "OpenRouterProvider", "OpenAIProvider"}
           /\ toolOut = getProviderForModel(id)
           /\ claude => toolOut = "ClaudeProvider"
           /\ (~claude /\ openrouter) => toolOut = "OpenRouterProvider"
           /\ (~claude /\ ~openrouter /\ openai) => toolOut = "OpenAIProvider"
           /\ (~claude /\ ~openrouter /\ ~openai) => toolOut = "ClaudeProvider"
           /\ (id = <<"o", "p", "u", "s">> \/ openrouter) => toolOut # "OpenAIProvider"

\* an OpenRouter id written with capitals has been routed to OpenRouter
C24_Witness ==
    /\ toolPc = "done"
    /\ toolIn = <<"O", "p", "e", "n", "R", "o", "u", "t", "e", "r", "/", "x">>
    /\ toolOut = "OpenRouterProvider"

\* C25: formatUserError gives back a string as it is, the first line of an
\* Error's message or the fallback when that line is empty, the first line of an
\* object's string message that is not blank, and the fallback (the default one
\* when none is given) for everything else.
C25_FormatUserError ==
    toolPc = "done" =>
        LET e == toolIn.error
            fallback == IF toolIn.fallback.given THEN <<"F">>
                        ELSE <<"An unexpected error occurred">>
            blank == \A i \in 1..Len(e.text) : e.text[i] \in {" ", "\n"}
            plain == e.t = "object" /\ e.hasMessage /\ e.isString /\ ~blank
        IN /\ e.t = "string" => toolOut = e.text
           /\ (e.t = "Error" /\ firstLine(e.text) # <<>>) => toolOut = firstLine(e.text)
           /\ (e.t = "Error" /\ firstLine(e.text) = <<>>) => toolOut = fallback
           /\ plain => toolOut = firstLine(e.text)
           /\ (e.t \notin {"string", "Error"} /\ ~plain) => toolOut = fallback

\* an Error whose message starts with a line break has given the fallback
C25_Witness ==
    /\ toolPc = "done"
    /\ toolIn.error.t = "Error"
    /\ toolIn.error.text = <<"\n", "a">>
    /\ toolIn.fallback.given
    /\ toolOut = <<"F">>

\* C26 (as stated): the sends of queued prompts start in the order in which the
\* prompts were enqueued: no prompt is sent while an older one, already taken
\* from the queue, is still waiting for its send.
C26_SentInEnqueueOrder ==
    \A a, b \in Tids :
        (/\ turns[a].via = "queue"
         /\ turns[b].via = "queue"
         /\ turns[a].pid < turns[b].pid
         /\ turns[a].pc = "qsaving") => turns[b].pc = "qsaving"

\* C26 (amended): a drain that finds the conversation Active or the queue empty
\* changes nothing and emits nothing; any other drain removes exactly the head of
\* the queue and prepares the send of that prompt, so prompts leave the queue in
\* enqueue order.
C26_DrainTakesHead ==
    [][drainPending' < drainPending =>
          /\ (isRunning \/ promptQueue = <<>>) =>
                UNCHANGED <<messages, disk, isRunning, abortController, aborted,
                            sessModel, promptQueue, queueFile, files, events,
                            turns, nextTid, nextPid, queueOps, lifeVars>>
          /\ (~isRunning /\ promptQueue # <<>>) =>
                /\ promptQueue' = Tail(promptQueue)
                /\ turns'[nextTid].via = "queue"
                /\ turns'[nextTid].pid = Head(promptQueue).id
                /\ \A t \in Tids \ {nextTid} : turns'[t] = turns[t]
                /\ events' = events
                /\ UNCHANGED <<messages, isRunning>>
          /\ \A a, b \in Tids :
                (a < b /\ turns'[a].via = "queue" /\ turns'[b].via = "queue")
                    => turns'[a].pid < turns'[b].pid]_vars

\* two drains have taken the first two prompts one after the other, a turn has
\* completed, the queue is empty and no drain is pending
C26_Witness ==
    /\ \E a, b \in Tids :
          /\ a < b
          /\ turns[a].via = "queue"
          /\ turns[b].via = "queue"
          /\ turns[b].pid = turns[a].pid + 1
    /\ promptQueue = <<>>
    /\ drainPending = 0
    /\ \E t \in Tids : turns[t].pc = "returned"

\* the slots whose accumulator entry has an id and a name
CompleteSlots ==
    {i \in Slots : \E j \in 1..Len(acc) :
        acc[j].index = i /\ acc[j].id # "" /\ acc[j].name # ""}

SlotEntry(i) == acc[CHOOSE j \in 1..Len(acc) : acc[j].index = i]

ToolUseEvents == SelectSeq(out, LAMBDA e : e.type = "tool_use")
ToolResultsOut == SelectSeq(out, LAMBDA e : e.type = "tool_result")
ToolMessagesSent == SelectSeq(activeMessages, LAMBDA m : m.role = "tool")

\* C27: the tool-use blocks, the tool results and the tool messages sent back to
\* the backend are as many as the slots that hold an id and a name when the
\* response ends, and each of them carries the id of such a slot; with no such
\* slot there is no tool-use event, no execution and no tool result.
C27_OnlyCompleteSlotsBecomeCalls ==
    /\ \A k \in 1..Len(ToolUseEvents) :
          LET blocks == ToolUseEvents[k].blocks
          IN /\ Len(blocks) = Cardinality(CompleteSlots)
             /\ \A b \in 1..Len(blocks) :
                   \E i \in CompleteSlots :
                      /\ SlotEntry(i).id = blocks[b].tool_use_id
                      /\ SlotEntry(i).name = blocks[b].name
    /\ \A r \in 1..Len(ToolResultsOut) :
          \E i \in CompleteSlots : SlotEntry(i).id = ToolResultsOut[r].id
    /\ \A m \in 1..Len(ToolMessagesSent) :
          \E i \in CompleteSlots : SlotEntry(i).id = ToolMessagesSent[m].id
    /\ Len(ToolResultsOut) \in {0, Cardinality(CompleteSlots)}
    /\ Len(ToolMessagesSent) = Len(ToolResultsOut)
    /\ qpc = "tools" => (CompleteSlots # {} /\ Len(ToolUseEvents) = 1)
    /\ (qpc = "done" /\ CompleteSlots # {}) =>
          /\ Len(ToolUseEvents) = 1
          /\ Len(ToolResultsOut) = Cardinality(CompleteSlots)
    /\ (qpc = "done" /\ CompleteSlots = {}) =>
          /\ Len(ToolUseEvents) = 0
          /\ Len(ToolResultsOut) = 0

\* slot 0 has an id and no name, slot 1 has both: one call has been executed
C27_Witness ==
    /\ qpc = "done"
    /\ CompleteSlots = {1}
    /\ \E j \in 1..Len(acc) : acc[j].index = 0 /\ acc[j].id # "" /\ acc[j].name = ""
    /\ Len(ToolUseEvents) = 1
    /\ Len(ToolUseEvents[1].blocks) = 1
    /\ Len(ToolResultsOut) = 1

\* the position of slot i among the slots that became calls
SlotRank(i) == Cardinality({j \in CompleteSlots : j < i}) + 1

\* C28: the calls of one response are executed by ascending slot index, whatever
\* the order in which the slots were first seen: the k-th tool-use block, the
\* k-th tool message and the k-th tool-result event belong to the k-th smallest
\* slot that became a call.
C28_CallsInSlotOrder ==
    /\ \A k \in 1..Len(ToolUseEvents) : \A i \in CompleteSlots :
          /\ SlotRank(i) <= Len(ToolUseEvents[k].blocks)
          /\ ToolUseEvents[k].blocks[SlotRank(i)].tool_use_id = SlotEntry(i).id
          /\ ToolUseEvents[k].blocks[SlotRank(i)].name = SlotEntry(i).name
    /\ ToolResultsOut # <<>> =>
          \A i \in CompleteSlots :
             /\ SlotRank(i) <= Len(ToolResultsOut)
             /\ ToolResultsOut[SlotRank(i)].id = SlotEntry(i).id
             /\ ToolMessagesSent[SlotRank(i)].id = SlotEntry(i).id
    /\ \A a, b \in 1..Len(out) :
          (out[a].type = "tool_use" /\ out[b].type = "tool_result") => a < b

\* slot 1 arrived first and slot 0 second; the call of slot 0 ran first
C28_Witness ==
    /\ qpc = "done"
    /\ Len(acc) = 2
    /\ acc[1].index = 1
    /\ acc[2].index = 0
    /\ acc[1].id = "call_a"
    /\ acc[2].id = "call_b"
    /\ CompleteSlots = {0, 1}
    /\ ToolResultsOut[1].id = "call_b"
    /\ ToolResultsOut[2].id = "call_a"

\* the agent events that the messages of a generator are due, in order: one
\* stream event per text block, one tool_use event per tool_use block, one
\* tool_result event per tool_result block, complete for the result
RECURSIVE DueEvents(_)
DueEvents(msgs) ==
    IF msgs = <<>> THEN <<>>
    ELSE (CASE Head(msgs).type = "text" -> <<"stream">>
            [] Head(msgs).type = "tool_use" -> [i \in 1..Head(msgs).n |-> "tool_use"]
            [] Head(msgs).type = "tool_result" -> <<"tool_result">>
            [] Head(msgs).type = "result" -> <<"complete">>)
         \o DueEvents(Tail(msgs))

\* the events of a turn that relay the generator's messages
RelayedEvents(t) ==
    LET log == SelectSeq(events[t], LAMBDA e : e.type \notin {"started", "message"})
    IN [i \in 1..Len(log) |-> log[i].type]

\* C29: while a turn runs without error and after it has returned, the events
\* emitted after started are, in order, those of the messages the provider has
\* generated and the stream loop has received: every text delta, tool call, tool
\* result and the completion has its event, and none is out of order.
C29_EveryGatewayEventRelayed ==
    \A t \in Tids :
        turns[t].pc \in {"streaming", "finalSaving", "returned"} =>
            /\ events[t] # <<>>
            /\ events[t][1].type = "started"
            /\ RelayedEvents(t) = DueEvents(SubSeq(out, 1, turns[t].relayed))

\* the texts of the text messages among msgs, one after the other
RECURSIVE TextSoFar(_)
TextSoFar(msgs) ==
    IF msgs = <<>> THEN <<>>
    ELSE (IF Head(msgs).type = "text" THEN Head(msgs).text ELSE <<>>)
         \o TextSoFar(Tail(msgs))

\* the positions in out of the text messages the stream loop has received
TextsReceived(t) == {i \in 1..turns[t].relayed : out[i].type = "text"}

\* C30: the history holds at most one assistant Message of a turn and, once the
\* turn has returned without error, exactly one user Message of it and no error
\* Message, however many text deltas and requests the turn had; the k-th stream
\* event carries the text of the first k text deltas, one after the other.
C30_OneGrowingAssistantMessage ==
    \A t \in Tids :
        LET of(kind) == {i \in 1..Len(messages) :
                            messages[i].tid = t /\ messages[i].kind = kind}
            streams == SelectSeq(events[t], LAMBDA e : e.type = "stream")
        IN /\ Cardinality(of("assistant")) <= 1
           /\ (turns[t].pc = "returned" /\ turns[t].success) =>
                 /\ Cardinality(of("user")) = 1
                 /\ of("error") = {}
                 /\ Len(messages) <= 2
                 /\ Len(streams) = Cardinality(TextsReceived(t))
           /\ Len(streams) <= Cardinality(TextsReceived(t))
           /\ \A k \in 1..Len(streams) :
                 \E i \in TextsReceived(t) :
                    /\ Cardinality({j \in TextsReceived(t) : j <= i}) = k
                    /\ streams[k].content = TextSoFar(SubSeq(out, 1, i))

\* a turn with a tool call between two text deltas has returned: two stream
\* events, the second with both texts, and one assistant Message
C30_Witness ==
    /\ turns[1].pc = "returned"
    /\ requests = 2
    /\ Len(messages) = 2
    /\ LET streams == SelectSeq(events[1], LAMBDA e : e.type = "stream")
       IN /\ Len(streams) = 2
          /\ streams[1].content = <<"a">>
          /\ streams[2].content = <<"a", "b">>

\* C31: while a request awaits its response, the first of the timeout and the
\* user's cancellation to fire aborts it, and a request ends by an abort only if
\* one of the two fired;
\* when the request call is over, whatever its exit, its timer is not pending and
\* its listener is not registered on the turn's controller.
C31_RequestLeavesNoTimerOrListener ==
    /\ toolPc = "ready" =>
          /\ toolOut.request.timer # "pending"
          /\ ~toolOut.request.listener
    /\ toolPc = "fetch" =>
          /\ toolOut.request.timer = "fired" => toolOut.request.aborted
          /\ toolOut.request.aborted => toolOut.request.cause \in {"timeout", "user"}
          /\ toolOut.request.cause = "user" => toolIn.signalAborted
          /\ (toolOut.request.timer = "pending" /\ toolOut.request.listener)
                => ~toolOut.request.aborted
    /\ \A i \in 1..Len(toolOut.exits) :
          (i = Len(toolOut.exits) /\ toolPc = "ready" /\ toolOut.exits[i] = "aborted")
              => toolOut.request.aborted

\* a request aborted by the user has ended, then one that timed out, then one
\* that received its response
C31_Witness ==
    /\ toolPc = "ready"
    /\ toolOut.exits = <<"aborted", "aborted", "response">>
    /\ toolOut.request.timer = "cleared"
    /\ toolIn.signalAborted

\* what an entry does to a text: it fails, or it replaces every or the leftmost
\* occurrence of its old text
EntryFails(text, e) ==
    \/ ~e.object
    \/ \A i \in 1..Len(e.old) : e.old[i] = " "
    \/ Occurrences(text, e.old) = 0

EntryResult(text, e) ==
    IF e.replaceAll THEN ReplaceEvery(text, e.old, e.new)
    ELSE ReplaceFirst(text, e.old, e.new)

\* the content after the first k entries of the call, each applied to the result
\* of the ones before it
RECURSIVE ContentAfter(_)
ContentAfter(k) ==
    IF k = 0 THEN toolIn.content
    ELSE EntryResult(ContentAfter(k - 1), toolIn.edits[k])

\* the entries of the call that fail on the content they are applied to
FailingEntries ==
    {k \in 1..Len(toolIn.edits) :
        /\ \A j \in 1..(k - 1) : ~EntryFails(ContentAfter(j - 1), toolIn.edits[j])
        /\ EntryFails(ContentAfter(k - 1), toolIn.edits[k])}

RECURSIVE ReplacementsUpTo(_)
ReplacementsUpTo(k) ==
    IF k = 0 THEN 0
    ELSE ReplacementsUpTo(k - 1)
         + (IF toolIn.edits[k].replaceAll
            THEN Occurrences(ContentAfter(k - 1), toolIn.edits[k].old)
            ELSE 1)

\* C32: an entry whose old text does not occur in the content the earlier entries
\* have produced gives an error-flagged result; entries that all apply and end
\* with the original content give "no changes" without an error and without a
\* write; the file is written only when the entries change the content, and the
\* report then carries the number of replacements.
C32_EditOutcomes ==
    toolPc = "done" =>
        LET n == Len(toolIn.edits)
        IN /\ FailingEntries # {} => toolOut.isError
           /\ (\E k \in FailingEntries :
                  /\ toolIn.edits[k].object
                  /\ \E i \in 1..Len(toolIn.edits[k].old) : toolIn.edits[k].old[i] # " ")
                 => toolOut.kind = "notfound"
           /\ (FailingEntries = {} /\ ContentAfter(n) = toolIn.content) =>
                 /\ ~toolOut.isError
                 /\ toolOut.kind = "nochange"
                 /\ ~toolOut.wrote
           /\ (FailingEntries = {} /\ ContentAfter(n) # toolIn.content) =>
                 /\ ~toolOut.isError
                 /\ toolOut.kind = "updated"
                 /\ toolOut.wrote
                 /\ toolOut.count = ReplacementsUpTo(n)
           /\ toolOut.wrote =>
                 (FailingEntries = {} /\ ContentAfter(n) # toolIn.content)

\* a to a everywhere, then a to a once: three replacements that end with the original content
C32_Witness ==
    /\ toolPc = "done"
    /\ toolIn.content = <<"a", "a">>
    /\ toolIn.edits = <<Edit(<<"a">>, <<"a">>, TRUE), Edit(<<"a">>, <<"a">>, FALSE)>>
    /\ toolOut.kind = "nochange"
    /\ ~toolOut.wrote

\* C40: the entries are applied in the given order, each to the result of the ones
\* before it; when they all apply the file holds the last result, and when one of
\* them fails (not an object, no old text, old text not found) the file holds what
\* it held before the call and nothing was written, also after earlier entries of
\* the list had matched.
C40_EditAllOrNothing ==
    toolPc = "done" =>
        /\ FailingEntries # {} =>
              /\ toolOut.isError
              /\ ~toolOut.wrote
              /\ toolOut.file = toolIn.content
        /\ FailingEntries = {} =>
              /\ ~toolOut.isError
              /\ toolOut.file = ContentAfter(Len(toolIn.edits))

\* the first entry removed a, the second one did not find a: the file still
\* holds ab
C40_Witness ==
    /\ toolPc = "done"
    /\ toolIn.content = <<"a", "b">>
    /\ toolIn.edits = <<Edit(<<"a">>, <<>>, TRUE), Edit(<<"a">>, <<>>, FALSE)>>
    /\ toolOut.isError
    /\ toolOut.kind = "notfound"
    /\ toolOut.file = <<"a", "b">>

\* ------------------------------------------------ edit-intent declarations

MaxIntentTurns == 2
MaxIntentDeltas == 2

\* the project directory of the turn (effectiveWorkDir), inside the allowed root
ProjectDir == Path(TRUE, AllowedRoot)

\* the project's hot spots: the file 's' and the pattern 'h/**'
HotSpotPatterns == {[base |-> <<"s">>, deep |-> FALSE], [base |-> <<"h">>, deep |-> TRUE]}

\* segment names whose text begins with two dots
DotDotNames == {"..", "..x"}

\* path.relative(from, to) of two resolved paths, as segments
RECURSIVE relative(_, _)
relative(from, to) ==
    IF from # <<>> /\ to # <<>> /\ Head(from) = Head(to)
    THEN relative(Tail(from), Tail(to))
    ELSE [k \in 1..Len(from) |-> ".."] \o to

\* relative.startsWith('..'): the text of the relative path begins with two dots
startsWithDots(rel) == rel # <<>> /\ Head(rel) \in DotDotNames

isHotSpotPath(filePath, patterns, projectPath) ==
    \E pattern \in patterns :
        LET resolvedBase == resolve(projectPath, Path(FALSE, pattern.base))
        IN IF pattern.deep
           THEN ~startsWithDots(relative(resolvedBase.segs, filePath.segs))
           ELSE resolvedBase = filePath

\* the pieces of assistant text: plain text or one complete [EDIT_INTENT] block
PlainPiece == [block |-> FALSE, summary |-> FALSE, files |-> {}]
IntentBlock(summary, fileList) == [block |-> TRUE, summary |-> summary, files |-> fileList]

\* extractEditIntent: the last complete block, none when it has no summary
NoIntent == [found |-> FALSE, files |-> {}]
extractEditIntent(content) ==
    LET blocks == {i \in 1..Len(content) : content[i].block}
    IN IF blocks = {} THEN NoIntent
       ELSE LET last == content[CHOOSE i \in blocks : \A j \in blocks : j <= i]
            IN IF ~last.summary THEN NoIntent
               ELSE [found |-> TRUE, files |-> last.files]

normalizeScope(fileList) == {resolve(ProjectDir, f) : f \in fileList}

\* validateAndSetScope throws on an empty list, a path outside the allowed
\* roots, or a hot spot
ScopeRefused(intent) ==
    \/ intent.files = {}
    \/ \E f \in normalizeScope(intent.files) : ~isPathAllowed(f)
    \/ \E f \in normalizeScope(intent.files) : isHotSpotPath(f, HotSpotPatterns, ProjectDir)

NoScope == [set |-> FALSE, files |-> {}]
validateAndSetScope(t, intent) ==
    IF ScopeRefused(intent)
    THEN [t EXCEPT !.status = "error"]
    ELSE [t EXCEPT !.intentSummary = TRUE,
                   !.approvedFileScope = [set |-> TRUE, files |-> normalizeScope(intent.files)]]

\* the files a declaration may list, relative to the project directory
IntentFiles == {Path(FALSE, <<"x">>), Path(FALSE, <<"s">>), Path(FALSE, <<"h", "x">>),
                Path(FALSE, <<"h", "..x">>), Path(FALSE, <<"..", "e">>)}
FileLists == {{}} \cup {{f} : f \in IntentFiles}
                  \cup {{Path(FALSE, <<"x">>), Path(FALSE, <<"s">>)}}
Pieces == {PlainPiece, IntentBlock(FALSE, {Path(FALSE, <<"x">>)})}
              \cup {IntentBlock(TRUE, fl) : fl \in FileLists}
TextDeltas == {<<a>> : a \in Pieces} \cup {<<a, b>> : a \in Pieces, b \in Pieces}

IntentIdle == [turn |-> 0, status |-> "idle", deltas |-> 0, responseText |-> <<>>,
               intentSummary |-> FALSE, approvedFileScope |-> NoScope]

InitIntent ==
    /\ AgentInit /\ QueryIdle
    /\ toolPc = "intent"
    /\ toolIn = [patterns |-> HotSpotPatterns]
    /\ toolOut = IntentIdle

\* sendMessage declares intentSummary and approvedFileScope anew
IntentTurnBegin ==
    /\ toolPc = "intent"
    /\ toolOut.status # "streaming"
    /\ toolOut.turn < MaxIntentTurns
    /\ toolOut' = [IntentIdle EXCEPT !.turn = toolOut.turn + 1, !.status = "streaming"]
    /\ UNCHANGED <<agentVars, queryVars, lifeVars, toolPc, toolIn>>

\* a text block of an assistant message: appended, then the intent is
\* extracted from the whole response text and validated
IntentText(delta) ==
    /\ toolPc = "intent"
    /\ toolOut.status = "streaming"
    /\ toolOut.deltas < MaxIntentDeltas
    /\ LET t == [toolOut EXCEPT !.responseText = @ \o delta, !.deltas = @ + 1]
           intent == extractEditIntent(t.responseText)
       IN toolOut' = IF intent.found THEN validateAndSetScope(t, intent) ELSE t
    /\ UNCHANGED <<agentVars, queryVars, lifeVars, toolPc, toolIn>>

\* the stream ends without a throw
IntentResult ==
    /\ toolPc = "intent"
    /\ toolOut.status = "streaming"
    /\ toolOut' = [toolOut EXCEPT !.status = "complete"]
    /\ UNCHANGED <<agentVars, queryVars, lifeVars, toolPc, toolIn>>

NextIntent ==
    \/ IntentTurnBegin
    \/ \E delta \in TextDeltas : IntentText(delta)
    \/ IntentResult

SpecIntent == InitIntent /\ [][NextIntent]_vars

\* what the claim calls a hot spot: the exact file, or any path under the base
\* of a pattern ending in '/**'
MatchesHotSpot(f) ==
    \E pattern \in HotSpotPatterns :
        LET resolvedBase == resolve(ProjectDir, Path(FALSE, pattern.base))
        IN IF pattern.deep THEN Under(f.segs, resolvedBase.segs) ELSE f = resolvedBase

DeclarationBad(fileList) ==
    \/ fileList = {}
    \/ \E f \in normalizeScope(fileList) : MatchesHotSpot(f) \/ ~isPathAllowed(f)

\* C33: whenever the assistant text of a turn contains a complete intent block
\* with a summary whose file list names a hot-spot path or a path outside the
\* allowed roots, or is empty, the turn has ended as an error and the approved
\* scope holds no such path; a turn starts with intent and scope unset
C33_BadIntentIsFatal ==
    toolPc = "intent" =>
        /\ \A i \in 1..Len(toolOut.responseText) :
               LET b == toolOut.responseText[i]
               IN (b.block /\ b.summary /\ DeclarationBad(b.files)) =>
                      /\ toolOut.status = "error"
                      /\ \A f \in toolOut.approvedFileScope.files :
                             ~MatchesHotSpot(f) /\ isPathAllowed(f)
        /\ (toolOut.status = "streaming" /\ toolOut.responseText = <<>>) =>
               (~toolOut.intentSummary /\ toolOut.approvedFileScope = NoScope)

\* what the code does guarantee: a refused last declaration is fatal
C33_LastDeclarationChecked ==
    toolPc = "intent" =>
        LET intent == extractEditIntent(toolOut.responseText)
        IN (intent.found /\ ScopeRefused(intent)) => toolOut.status = "error"

\* a path under the base of 'h/**' is in the approved scope of a running turn
C33_HotSpotApproved ==
    /\ toolPc = "intent"
    /\ toolOut.status = "streaming"
    /\ resolve(ProjectDir, Path(FALSE, <<"h", "..x">>)) \in toolOut.approvedFileScope.files

\* C34: when the conversation has no continuation token, the stream event that
\* carries one sets it in memory and the update that follows writes it to the
\* metadata entry; a token that is set is never replaced; every turn whose
\* options are built afterwards passes the stored token to the provider.
C34_TokenSetOncePersistedAndPassed ==
    [][/\ (sdkSessionId # 0) => (sdkSessionId' = sdkSessionId)
       /\ \A t \in Tids :
             /\ (turns[t].pc = "streaming" /\ turns'[t].pc = "persisting") =>
                    (sdkSessionId = 0 /\ sdkSessionId' # 0)
             /\ (turns[t].pc = "persisting" /\ turns'[t].pc = "streaming") =>
                    metadataToken' = sdkSessionId
             /\ (turns[t].pc = "preparing" /\ turns'[t].pc = "streaming") =>
                    turns'[t].sdk = sdkSessionId]_vars

\* the same with the write demanded only of a conversation that has a
\* metadata entry
C34_TokenKeptAndPassed ==
    [][/\ (sdkSessionId # 0) => (sdkSessionId' = sdkSessionId)
       /\ \A t \in Tids :
             /\ (turns[t].pc = "streaming" /\ turns'[t].pc = "persisting") =>
                    (sdkSessionId = 0 /\ sdkSessionId' # 0)
             /\ (turns[t].pc = "persisting" /\ turns'[t].pc = "streaming") =>
                    (metadata => metadataToken' = sdkSessionId)
             /\ (turns[t].pc = "preparing" /\ turns'[t].pc = "streaming") =>
                    turns'[t].sdk = sdkSessionId]_vars

\* a second turn runs with the token of the first, which no metadata entry holds
C34_TokenNotPersisted ==
    /\ sdkSessionId = 1
    /\ turns[2].pc = "streaming"
    /\ turns[2].sdk = 1
    /\ metadataToken = 0

\* ------------------------------------------------------ validatePathParams

MaxParams == 2
MaxItems == 2

\* a value of req.body: undefined or a string (the empty string is NoPath), or
\* an array of strings
StringValue(p) == [isArray |-> FALSE, items |-> <<p>>]
ArrayValue(ps) == [isArray |-> TRUE, items |-> ps]

\* validatePath throws PathNotAllowedError: the Path Guard refuses the resolved path
PathRefused(p) == ~isPathAllowed(resolveInputPath(ProcessCwd, p))

\* mutant: only the first element of an array is validated
ValidatedFirstOnly(kind, value) ==
    IF kind = "array"
    THEN IF value.isArray /\ Len(value.items) > 0 THEN <<value.items[1]>> ELSE <<>>
    ELSE IF value.items[1] # NoPath THEN value.items ELSE <<>>

\* the values of one parameter that are handed to validatePath, in order: every
\* element of a non-empty array for 'name[]', a truthy value for 'name' and 'name?'
Validated(kind, value) ==
    IF kind = "array"
    THEN IF value.isArray /\ Len(value.items) > 0 THEN value.items ELSE <<>>
    ELSE IF value.items[1] # NoPath THEN value.items ELSE <<>>

Passed == [next |-> 1, status |-> 0, success |-> TRUE, error |-> NoPath]
Forbidden(p) == [next |-> 0, status |-> 403, success |-> FALSE, error |-> p]

\* the middleware: the parameters in the order listed, the first refusal is caught
RECURSIVE validateLoop(_, _, _)
validateLoop(paramKinds, body, i) ==
    IF i > Len(paramKinds) THEN Passed
    ELSE LET vs == Validated(paramKinds[i], body[i])
             bad == {k \in 1..Len(vs) : PathRefused(vs[k])}
         IN IF bad # {}
            THEN Forbidden(vs[CHOOSE k \in bad : \A j \in bad : k <= j])
            ELSE validateLoop(paramKinds, body, i + 1)

validatePathParams(paramKinds, body) == validateLoop(paramKinds, body, 1)

\* the paths a request names: inside the allowed root, outside it, leaving it
\* through '..', relative to the process directory
RequestPaths == {Path(TRUE, <<"p">>), Path(TRUE, <<"e">>), Path(TRUE, <<"p", "..", "e">>),
                 Path(FALSE, <<"..", "e">>)}
ParamKinds == {"plain", "optional", "array"}
RequestValues(kind) ==
    IF kind = "array"
    THEN {StringValue(p) : p \in {NoPath, Path(TRUE, <<"e">>)}}
         \cup {ArrayValue(ps) : ps \in UNION {[1..k -> RequestPaths \cup {NoPath}] :
                                               k \in 0..MaxItems}}
    ELSE {StringValue(p) : p \in RequestPaths \cup {NoPath}}

InitValidate ==
    /\ AgentInit /\ QueryIdle
    /\ toolPc = "request"
    /\ \E n \in 0..MaxParams : \E kinds \in [1..n -> ParamKinds] :
          \E body \in [1..n -> UNION {RequestValues(k) : k \in ParamKinds}] :
             /\ \A i \in 1..n : body[i] \in RequestValues(kinds[i])
             /\ toolIn = [paramNames |-> kinds, body |-> body]
    /\ toolOut = [next |-> 0, status |-> 0, success |-> TRUE, error |-> NoPath]

ValidateCall ==
    /\ toolPc = "request"
    /\ toolPc' = "done"
    /\ toolOut' = validatePathParams(toolIn.paramNames, toolIn.body)
    /\ UNCHANGED <<agentVars, queryVars, toolIn, lifeVars>>

NextValidate == ValidateCall

SpecValidate == InitValidate /\ [][NextValidate]_vars

\* the validated values of a request that the Path Guard refuses
RefusedValues ==
    {v \in UNION {LET value == toolIn.body[i]
                  IN IF toolIn.paramNames[i] = "array"
                     THEN IF value.isArray THEN {value.items[k] : k \in 1..Len(value.items)}
                          ELSE {}
                     ELSE {value.items[1]} \ {NoPath} : i \in 1..Len(toolIn.paramNames)} :
        PathRefused(v)}

C36_RunningIffHandleHeld == isRunning <=> (abortController # 0)

\* every step other than one that empties the history and changes the flag, as
\* clearSession does, keeps the flag and the handle in agreement
C36_AgreeUnlessCleared ==
    [][(messages' # <<>> \/ messages = <<>> \/ isRunning' = isRunning) =>
          ((isRunning <=> (abortController # 0)) =>
               (isRunning' <=> (abortController' # 0)))]_vars

\* a handle is held by a conversation that is not running
C36_HandleHeldWhileIdle == ~isRunning /\ abortController # 0

\* C37: when turn a was stopped and a newer turn b is Active with its own
\* handle, the exit of a (completion, abort or error) leaves the running flag
\* set and the handle of b in place, appends nothing to the history and
\* schedules no drain.
C37_StoppedTurnLeavesNewerAlone ==
    [][\A a, b \in Tids :
          (/\ a # b
           /\ a \in aborted
           /\ isRunning
           /\ abortController = b
           /\ turns[b].pc \in {"preparing", "streaming", "finalSaving"}
           /\ turns'[a].pc # turns[a].pc
           /\ turns'[a].pc \in {"returned", "aborted", "errSaving"}) =>
              /\ isRunning'
              /\ abortController' = b
              /\ messages' = messages
              /\ drainPending' = drainPending]_vars

\* the stopped first turn has returned and the second, still streaming, has
\* lost the running flag and its handle
C37_NewerTurnDisturbed ==
    /\ 1 \in aborted
    /\ turns[1].pc \in {"returned", "aborted"}
    /\ turns[2].pc = "streaming"
    /\ turns[2].ctrl = 2
    /\ ~isRunning
    /\ abortController = 0
    /\ 2 \notin aborted

\* ------------------------------------------------- the queue under fairness

\* One caller send at most, prompts enqueued at any moment, stops at any moment;
\* no prompt is removed and the queue is never cleared.
NextStrand ==
    \/ \E m \in Models, k \in 0..MaxImages : nextTid = 1 /\ SendMessage(m, k)
    \/ \E t \in Tids : TurnStep(t)
    \/ StopExecution
    \/ \E m \in Models, k \in 0..MaxImages : AddToQueue(m, k)
    \/ AddSaved
    \/ DrainStart

\* every step of a turn, every pending file write and every scheduled callback
\* is eventually run; the caller's sends, enqueues and stops are not forced
FairSpecStrand ==
    /\ Init
    /\ [][NextStrand]_vars
    /\ \A t \in Tids : WF_vars(TurnStep(t))
    /\ WF_vars(AddSaved)
    /\ WF_vars(DrainStart)

InQueue(pid) == \E i \in 1..Len(promptQueue) : promptQueue[i].id = pid
SentFromQueue(pid) ==
    \E t \in Tids : /\ turns[t].via = "queue"
                    /\ turns[t].pid = pid
                    /\ turns[t].pc \notin {"none", "qsaving", "rejected"}

MaxConvs == 2
ConvIds == 1..MaxConvs

\* an entry of the index file, updatedAt as the number of writes to the entry
NoEntry == [present |-> FALSE, archived |-> FALSE, updatedAt |-> 0]
OldEntry == [present |-> TRUE, archived |-> FALSE, updatedAt |-> 0]

MetadataOps == {"createSession", "updateSession", "updateSessionTimestamp", "deleteSession"}

\* whether the operation reaches saveMetadata with the index it loaded
WritesIndex(op, c, index) == op = "createSession" \/ index[c].present

\* what the operation does to the index object it loaded
updateIndex(op, c, index) ==
    IF ~WritesIndex(op, c, index) THEN index
    ELSE IF op = "createSession"
         THEN [index EXCEPT ![c] = [present |-> TRUE, archived |-> FALSE, updatedAt |-> 1]]
    ELSE IF op = "updateSession"
         THEN [index EXCEPT ![c].archived = TRUE, ![c].updatedAt = @ + 1]
    ELSE IF op = "updateSessionTimestamp"
         THEN [index EXCEPT ![c].updatedAt = @ + 1]
    ELSE [index EXCEPT ![c] = NoEntry]

\* one operation per conversation, each not yet started
InitIndex ==
    /\ AgentInit /\ QueryIdle
    /\ toolPc = "index"
    /\ toolIn \in [ConvIds -> MetadataOps]
    /\ \E file \in [ConvIds -> {NoEntry, OldEntry}] :
          toolOut = [file |-> file, first |-> file,
                     op |-> [c \in ConvIds |-> [pc |-> "called", loaded |-> file]]]

\* loadMetadata: the operation parses the file as it is now
MetaLoad(c) ==
    /\ toolPc = "index"
    /\ toolOut.op[c].pc = "called"
    /\ toolOut' = [toolOut EXCEPT !.op[c] = [pc |-> "loaded", loaded |-> toolOut.file]]
    /\ UNCHANGED <<agentVars, queryVars, lifeVars, toolPc, toolIn>>

\* the operation changes its own entry of the object it loaded and, if it has
\* anything to write, saveMetadata replaces the file with that object
MetaSave(c) ==
    /\ toolPc = "index"
    /\ toolOut.op[c].pc = "loaded"
    /\ toolOut' = [toolOut EXCEPT
                      !.file = IF WritesIndex(toolIn[c], c, toolOut.op[c].loaded)
                               THEN updateIndex(toolIn[c], c, toolOut.op[c].loaded)
                               ELSE @,
                      !.op[c].pc = "done"]
    /\ UNCHANGED <<agentVars, queryVars, lifeVars, toolPc, toolIn>>

NextIndex == \E c \in ConvIds : MetaLoad(c) \/ MetaSave(c)

SpecIndex == InitIndex /\ [][NextIndex]_vars

\* the index after each operation has been applied to its own entry
RECURSIVE AllApplied(_, _)
AllApplied(index, c) ==
    IF c > MaxConvs THEN index
    ELSE AllApplied(updateIndex(toolIn[c], c, index), c + 1)

\* C39: when the metadata operations of different conversations have all
\* returned, however their loads and saves interleaved, the index holds the
\* update of each.
C39_NoMetadataUpdateLost ==
    (toolPc = "index" /\ \A c \in ConvIds : toolOut.op[c].pc = "done") =>
        toolOut.file = AllApplied(toolOut.first, 1)

\* the entry created for conversation 1 is gone after the update of conversation
\* 2 has saved the index it had loaded before
C39_CreatedEntryLost ==
    /\ toolPc = "index"
    /\ toolIn[1] = "createSession"
    /\ toolIn[2] = "updateSession"
    /\ \A c \in ConvIds : toolOut.op[c].pc = "done"
    /\ ~toolOut.first[1].present
    /\ ~toolOut.file[1].present
    /\ toolOut.file[2].archived

====
